---- MODULE Spec2Model ----
(***************************************************************************)
(* Model of the streaming multi-provider text-extraction pipeline of       *)
(* live-document-ocr: the backend router and its stream relays             *)
(* (api/extract-text.ts), the client generator extractTextFromImageStream, *)
(* processTextWithAI, the binarization loop of preprocessImage and the     *)
(* App's handleFileReady.                                                  *)
(*                                                                         *)
(* Text representation.  A byte string is a sequence of byte tokens and a  *)
(* decoded string a sequence of character tokens.  Every ASCII token       *)
(* stands for a fixed run of ASCII bytes and decodes to itself:            *)
(*    "data:"   the five bytes  data:                                      *)
(*    " "       one space                                                  *)
(*    "{"       the JSON text that opens a frame up to and including the   *)
(*              opening quote of its content string                        *)
(*    "}"       the closing quote of the content string and the brackets   *)
(*              that close the frame                                       *)
(*    "[DONE]"  the six bytes  [DONE]                                      *)
(*    "a"       one ASCII letter of content                                *)
(*    "NL"      the newline byte 0x0A                                      *)
(* "L" and "C" are the lead byte and the continuation byte of one two-byte *)
(* UTF-8 character, which decodes to the character token "e'"; "FFFD" is   *)
(* the replacement character U+FFFD and "R" the run of three bytes         *)
(* EF BF BD that encodes it.                                               *)
(***************************************************************************)
EXTENDS Integers, Sequences, FiniteSets, TLC

\* ---------------------------------------------------------------- bounds
MaxFrames == 3
MaxAppFrames == 2
MaxPixels == 2

\* ------------------------------------------------------- sequence helpers
RECURSIVE Flatten(_)
Flatten(ss) ==
  IF ss = <<>> THEN <<>> ELSE Head(ss) \o Flatten(Tail(ss))

RECURSIVE SeqsUpTo(_, _)
SeqsUpTo(S, n) ==
  IF n = 0 THEN {<<>>}
  ELSE LET shorter == SeqsUpTo(S, n - 1)
       IN  shorter \cup {Append(s, e) : s \in {t \in shorter : Len(t) = n - 1}, e \in S}

\* ------------------------------------------------------------ TextDecoder
AsciiBytes == {"data:", " ", "{", "}", "[DONE]", "a", "NL"}
Bytes == AsciiBytes \cup {"L", "C", "R"}

\* One byte with no character pending.
DecodeFresh(b) ==
  IF b = "L" THEN [out |-> <<>>, pending |-> <<"L">>]
  ELSE IF b \in {"C", "R"} THEN [out |-> <<"FFFD">>, pending |-> <<>>]
  ELSE [out |-> <<b>>, pending |-> <<>>]

\* One byte through the UTF-8 decoder: pending is <<>> or <<"L">>.  A lead
\* byte followed by anything but its continuation byte is replaced by
\* U+FFFD and the offending byte is decoded again on its own.
DecodeByte(pending, b) ==
  IF pending = <<>> THEN DecodeFresh(b)
  ELSE IF b = "C" THEN [out |-> <<"e'">>, pending |-> <<>>]
  ELSE [out |-> <<"FFFD">> \o DecodeFresh(b).out,
        pending |-> DecodeFresh(b).pending]

RECURSIVE DecodeBytes(_, _)
DecodeBytes(pending, bytes) ==
  IF bytes = <<>> THEN [out |-> <<>>, pending |-> pending]
  ELSE LET one  == DecodeByte(pending, Head(bytes))
           rest == DecodeBytes(one.pending, Tail(bytes))
       IN  [out |-> one.out \o rest.out, pending |-> rest.pending]

\* Variant of DecodeStream that flushes the decoder at the end of every call.
DecodeStreamFlushed(pending, value) ==
  [out |-> DecodeBytes(<<>>, value).out
             \o (IF DecodeBytes(<<>>, value).pending = <<>> THEN <<>> ELSE <<"FFFD">>),
   pending |-> <<>>]

\* decoder.decode(value, { stream: true }): an incomplete character at the
\* end of value is kept for the next call.
DecodeStream(pending, value) == DecodeBytes(pending, value)

\* decoder.decode(value): the decoder is flushed at the end of the call, an
\* incomplete character becomes U+FFFD and nothing is kept.
DecodeNoStream(value) ==
  LET d == DecodeBytes(<<>>, value)
  IN  d.out \o (IF d.pending = <<>> THEN <<>> ELSE <<"FFFD">>)

\* TextEncoder / res.write(string): characters to UTF-8 bytes.
RECURSIVE EncodeText(_)
EncodeText(text) ==
  IF text = <<>> THEN <<>>
  ELSE (IF Head(text) = "e'" THEN <<"L", "C">>
        ELSE IF Head(text) = "FFFD" THEN <<"R">>
        ELSE <<Head(text)>>) \o EncodeText(Tail(text))

\* ------------------------------------------------------- string helpers
\* buffer.split('\n'): the pieces between newlines, always at least one.
RECURSIVE SplitLines(_)
SplitLines(text) ==
  IF text = <<>> THEN << <<>> >>
  ELSE LET rest == SplitLines(Tail(text))
       IN  IF Head(text) = "NL" THEN << <<>> >> \o rest
           ELSE << <<Head(text)>> \o Head(rest) >> \o Tail(rest)

Whitespace == {" ", "NL"}

RECURSIVE TrimLeft(_)
TrimLeft(s) ==
  IF s # <<>> /\ Head(s) \in Whitespace THEN TrimLeft(Tail(s)) ELSE s

RECURSIVE TrimRight(_)
TrimRight(s) ==
  IF s # <<>> /\ s[Len(s)] \in Whitespace
  THEN TrimRight(SubSeq(s, 1, Len(s) - 1)) ELSE s

Trim(s) == TrimRight(TrimLeft(s))

\* line.startsWith('data: ')
StartsWithData(line) ==
  Len(line) >= 2 /\ line[1] = "data:" /\ line[2] = " "

\* Characters a JSON string may hold unescaped.
ContentChars == {"a", "e'", "FFFD", " ", "data:", "[DONE]"}

\* JSON.parse(data) followed by the property path to the content string:
\* ok is FALSE when JSON.parse (or the property access) throws.
ParseFrame(data) ==
  LET t == Trim(data)
  IN  IF /\ Len(t) >= 2
         /\ t[1] = "{"
         /\ t[Len(t)] = "}"
         /\ \A i \in 2..(Len(t) - 1) : t[i] \in ContentChars
      THEN [ok |-> TRUE, content |-> SubSeq(t, 2, Len(t) - 1)]
      ELSE [ok |-> FALSE, content |-> <<>>]

\* ------------------------------------------------- upstream SSE frames
\* The frames an upstream body is made of, as the bytes on the wire.
FrameBytes(kind) ==
  CASE kind = "a"      -> <<"data:", " ", "{", "a", "}", "NL">>
    [] kind = "e'"     -> <<"data:", " ", "{", "L", "C", "}", "NL">>
    [] kind = "empty"  -> <<"data:", " ", "{", "}", "NL">>
    [] kind = "blank"  -> <<"NL">>
    [] kind = "done"   -> <<"data:", " ", "[DONE]", "NL">>
    [] kind = "cut"    -> <<"data:", " ", "{", "L", "NL">>

\* choices[0].delta.content of a frame that carries one.
FrameContent(kind) ==
  CASE kind = "a"  -> <<"a">>
    [] kind = "e'" -> <<"e'">>
    [] OTHER       -> <<>>

ContentKinds   == {"a", "e'"}
GoodKinds      == ContentKinds \cup {"empty", "blank"}
MalformedKinds == {"cut"}
FrameKinds     == GoodKinds \cup MalformedKinds \cup {"done"}

\* A final line that the upstream did not terminate by a newline.
Tails == {<<>>, <<"data:", " ", "{", "a", "}">>}

RECURSIVE BodyBytes(_)
BodyBytes(frames) ==
  IF frames = <<>> THEN <<>>
  ELSE FrameBytes(Head(frames)) \o BodyBytes(Tail(frames))

RECURSIVE ContentOf(_)
ContentOf(frames) ==
  IF frames = <<>> THEN <<>>
  ELSE FrameContent(Head(frames)) \o ContentOf(Tail(frames))

\* ------------------------------------------------------------ the state
VARIABLES
  req,            \* the request: method, whether req.body is an object, its fields
  env,            \* process.env: the three provider credentials
  hpc,            \* where the handler stands
  adapterCalls,   \* the adapters the router has called, in order
  fetchCalls,     \* the upstream calls made through fetch, in order
  apiResponse,    \* what the upstream answered: status (0: nothing yet), text
  upFrames,       \* the frames of the upstream body (input)
  upTail,         \* the unterminated final line of the upstream body (input)
  upstream,       \* bytes of the upstream body not read yet
  decoderPending, \* bytes the streaming TextDecoder holds back
  buffer,         \* carry-over of handleOpenAICompatibleStream
  res,            \* the response object
  serverLog,      \* what the backend has written with console.error
  readBoundaries, \* where read boundaries fell in the upstream body so far
  apc,            \* where handleFileReady and its generator stand
  file,           \* the file handed to handleFileReady
  selectedLlm,    \* App state: the provider selected in the UI
  pipe,           \* bytes of the response body on their way to the client
  yielded,        \* the chunks extractTextFromImageStream has yielded
  fullExtractedText, \* local of handleFileReady
  isFirstChunk,   \* local of handleFileReady
  docAtStart,     \* the living document when handleFileReady was called
  livingDocument, \* App state
  extractionHistory, \* App state: the texts of the history items
  hasUnsavedChanges, \* App state
  isLoading,      \* App state
  imageUrl,       \* App state
  objectUrls,     \* URL.createObjectURL handles not revoked yet
  toast,          \* App state: the toast shown last
  toasts,         \* every toast handleFileReady has shown since it was called
  clientLog,      \* what the client has written with console.error
  tpc,            \* where processTextWithAI stands
  taskResult,     \* what processTextWithAI returned or threw
  backendRequests, \* the requests the client has posted to /api/extract-text
  imageData,      \* the canvas pixels getImageData returned, as read
  pixelData,      \* imageData.data, the array the binarization loop writes
  loopI,          \* the loop variable i of the binarization loop
  scriptBody,     \* the text-task body given to both copies of the text handling
  scriptReply,    \* the upstream response given to both copies
  scriptRun,      \* prompt and outcome of the verification script's functions
  backendRun,     \* prompt and outcome of the backend's functions
  documentTitle,  \* App state
  localStorage,   \* window.localStorage: the three entries the App keeps
  userActions,    \* what the user has done in the UI, in order
  isSummarizing,  \* App state: handleSummarize awaits processTextWithAI
  isSuggestingTitle, \* App state: handleSuggestTitle awaits processTextWithAI
  mpc,            \* where the mount of the App stands
  strictMode,     \* the App is rendered in React.StrictMode: mount effects run twice
  effectRuns,     \* how many times the mount effects have run
  pendingState,   \* state updates queued by the effects, applied at the next render
  storedAtMount,  \* the extractionHistory entry of localStorage before the mount
  isCameraOpen,   \* ImageUploader state, the isOpen prop of CameraModal
  stream,         \* CameraModal state: the MediaStream, 0 for null
  effectStream,   \* the stream the cleanup of the current effect closes over
  getUserMediaPending, \* the calls of getUserMedia not settled yet
  liveStreams,    \* the MediaStreams whose tracks have not been stopped
  getUserMediaCalls, \* how many times getUserMedia was called
  cameraMounted,  \* CameraModal is mounted
  cameraError     \* CameraModal state

hvars == <<req, env, hpc, adapterCalls, fetchCalls, apiResponse, upFrames, upTail, upstream,
           decoderPending, buffer, res, serverLog, readBoundaries>>

appvars == <<apc, file, selectedLlm, yielded, fullExtractedText,
             isFirstChunk, docAtStart, livingDocument, extractionHistory,
             hasUnsavedChanges, isLoading, imageUrl, objectUrls, toast, toasts,
             clientLog, tpc, taskResult, backendRequests>>

pvars == <<imageData, pixelData, loopI>>

svars == <<scriptBody, scriptReply, scriptRun, backendRun>>

uivars == <<documentTitle, localStorage, userActions, isSummarizing, isSuggestingTitle>>

mvars == <<mpc, strictMode, effectRuns, pendingState, storedAtMount>>

cvars == <<isCameraOpen, stream, effectStream, getUserMediaPending, liveStreams,
           getUserMediaCalls, cameraMounted, cameraError>>

\* The variables of the parts that are modelled on their own.
auxvars == <<pvars, svars, uivars, mvars, cvars>>

vars == <<hvars, pipe, appvars, auxvars>>

Undefined == "undefined"
Truthy(v) == v \notin {Undefined, ""}

CredentialNames == {"GEMINI_API_KEY", "DEEPSEEK_API_KEY", "OPENAI_API_KEY"}

\* What an async function has come to: nothing yet, a returned value or a
\* thrown Error with its message.
NoResult == [kind |-> "none", value |-> <<>>]
Returned(value) == [kind |-> "returned", value |-> value]
Thrown(message) == [kind |-> "thrown", value |-> message]

\* ---------------------------------------------------------- VercelResponse
NoBody == [field |-> "none", value |-> <<>>]
ErrorBody(message) == [field |-> "error", value |-> message]
ResultBody(result) == [field |-> "result", value |-> result]

NewResponse ==
  [headersSent |-> FALSE, statusCode |-> 200, contentType |-> Undefined,
   allow |-> Undefined, sent |-> NoBody, written |-> <<>>, ends |-> 0]

\* res.status(code).send(body)
Send(r, code, body) ==
  [r EXCEPT !.statusCode = code, !.sent = body, !.headersSent = TRUE,
            !.contentType = "application/json", !.ends = @ + 1]

\* res.write(chunk) for each chunk of chunks: the first write sends the headers
WriteAll(r, chunks) ==
  IF chunks = <<>> THEN r
  ELSE [r EXCEPT !.written = @ \o chunks, !.headersSent = TRUE]

\* res.end()
End(r) == [r EXCEPT !.headersSent = TRUE, !.ends = @ + 1]

\* ------------------------------------------- handleOpenAICompatibleStream
\* Variant of LineFragments in which a parse failure leaves the for loop.
RECURSIVE LineFragmentsAbort(_)
LineFragmentsAbort(lines) ==
  IF lines = <<>> THEN <<>>
  ELSE LET line == Head(lines)
           data == SubSeq(line, 3, Len(line))
           json == ParseFrame(data)
       IN  IF StartsWithData(line) /\ Trim(data) # <<"[DONE]">> /\ ~json.ok
           THEN <<>>
           ELSE (IF StartsWithData(line) /\ Trim(data) # <<"[DONE]">>
                    /\ json.content # <<>>
                 THEN << json.content >> ELSE <<>>)
                \o LineFragmentsAbort(Tail(lines))

\* The textChunk values the for loop writes for the complete lines of a read.
RECURSIVE LineFragments(_)
LineFragments(lines) ==
  IF lines = <<>> THEN <<>>
  ELSE LET line == Head(lines)
           data == SubSeq(line, 3, Len(line))
           json == ParseFrame(data)
           here == IF /\ StartsWithData(line)
                      /\ Trim(data) # <<"[DONE]">>
                      /\ json.ok
                      /\ json.content # <<>>
                   THEN << json.content >> ELSE <<>>
       IN  here \o LineFragments(Tail(lines))

\* The number of lines whose payload JSON.parse rejects (console.error).
RECURSIVE LineErrors(_)
LineErrors(lines) ==
  IF lines = <<>> THEN 0
  ELSE LET line == Head(lines)
           data == SubSeq(line, 3, Len(line))
       IN  (IF /\ StartsWithData(line)
               /\ Trim(data) # <<"[DONE]">>
               /\ ~ParseFrame(data).ok
            THEN 1 ELSE 0) + LineErrors(Tail(lines))

\* Variant of RelayRead that keeps no partial line for the next read.
RelayReadNoCarry(pending, buf, value) ==
  LET dec   == DecodeStream(pending, value)
      parts == SplitLines(dec.out)
      lines == SubSeq(parts, 1, Len(parts) - 1)
  IN  [pending |-> dec.pending,
       buffer  |-> <<>>,
       writes  |-> LineFragments(lines),
       errors  |-> LineErrors(lines)]

\* Variant of RelayRead that handles the last, unterminated piece as a line
\* too and carries nothing over.
RelayReadEager(pending, buf, value) ==
  LET dec   == DecodeStream(pending, value)
      text  == buf \o dec.out
      parts == SplitLines(text)
  IN  [pending |-> dec.pending,
       buffer  |-> <<>>,
       writes  |-> LineFragments(parts),
       errors  |-> LineErrors(parts)]

\* One iteration of the while loop on a read that delivered value.
RelayRead(pending, buf, value) ==
  LET dec   == DecodeStream(pending, value)
      text  == buf \o dec.out
      parts == SplitLines(text)
      lines == SubSeq(parts, 1, Len(parts) - 1)
  IN  [pending |-> dec.pending,
       buffer  |-> parts[Len(parts)],
       writes  |-> LineFragments(lines),
       errors  |-> LineErrors(lines)]

\* ------------------------------------------------------ handleGeminiStream
\* chunk.replace(/^data: /, '')
StripDataPrefix(chunk) ==
  IF StartsWithData(chunk) THEN SubSeq(chunk, 3, Len(chunk)) ELSE chunk

\* Variant of GeminiRead that frames the read by lines, as the SSE relay does.
GeminiReadByLines(value) ==
  LET lines == SplitLines(DecodeNoStream(value))
  IN  [writes |-> LineFragments(lines), errors |-> LineErrors(lines)]

\* One iteration of the while loop of handleGeminiStream.
GeminiRead(value) ==
  LET chunk == DecodeNoStream(value)
      json  == ParseFrame(StripDataPrefix(chunk))
  IN  [writes |-> IF json.ok /\ json.content # <<>>
                  THEN << json.content >> ELSE <<>>,
       errors |-> IF json.ok THEN 0 ELSE 1]

\* ------------------------------------------------------ prompt generation
BaseInstruction == "You are an expert OCR engine. Extract all text from the image. [...]"

\* Variant of getOcrPrompt without the case 'receipt'.
GetOcrPromptNoReceipt(context) ==
  CASE context = "handwriting" ->
         <<"Transcribe the handwritten text from this image. Use <p> and <br> tags to preserve the original line breaks and layout. ",
           BaseInstruction>>
    [] context = "book" ->
         <<"Extract the text from this page of a book or article. Maintain the original paragraph structure, headings, and any lists accurately using appropriate HTML tags. ",
           BaseInstruction>>
    [] context = "whiteboard" ->
         <<"Transcribe the text and diagrams from this whiteboard. Pay attention to the layout, bullet points, and any drawn structures to capture the content as accurately as possible using HTML. ",
           BaseInstruction>>
    [] context = "quiz" ->
         <<"Extract the multiple-choice questions from this image. Format each question using an <ol> for the questions and a <ul> for the options. Preserve the lettering (e.g., A, B, C) for each option. ",
           BaseInstruction>>
    [] OTHER -> <<BaseInstruction>>

\* getOcrPrompt(context): the pieces of the template string, in order.
GetOcrPrompt(context) ==
  CASE context = "receipt" ->
         <<"Extract all items, prices, and the total amount from this receipt. ",
           "Structure the output as an HTML table.", " ", BaseInstruction>>
    [] context = "handwriting" ->
         <<"Transcribe the handwritten text from this image. Use <p> and <br> tags to preserve the original line breaks and layout. ",
           BaseInstruction>>
    [] context = "book" ->
         <<"Extract the text from this page of a book or article. Maintain the original paragraph structure, headings, and any lists accurately using appropriate HTML tags. ",
           BaseInstruction>>
    [] context = "whiteboard" ->
         <<"Transcribe the text and diagrams from this whiteboard. Pay attention to the layout, bullet points, and any drawn structures to capture the content as accurately as possible using HTML. ",
           BaseInstruction>>
    [] context = "quiz" ->
         <<"Extract the multiple-choice questions from this image. Format each question using an <ol> for the questions and a <ul> for the options. Preserve the lettering (e.g., A, B, C) for each option. ",
           BaseInstruction>>
    [] OTHER -> <<BaseInstruction>>

\* What a function returns when no return statement is reached: undefined,
\* no prompt at all.
NoPrompt == <<>>

\* getTextTaskPrompt(task, text) of the backend: the switch has the cases
\* 'summarize' and 'title' and no default.
GetTextTaskPrompt(task, text) ==
  CASE task = "summarize" ->
         <<"Summarize the following text in one or two paragraphs. Focus on the key points and main arguments. The text is: \"",
           text, "\"">>
    [] task = "title" ->
         <<"Generate a concise, descriptive title (5 words or less) for the following document. Do not use quotation marks in the title. The document text is: \"",
           text, "\"">>
    [] OTHER -> NoPrompt

\* The prompt an adapter puts in its payload.
PromptOf(mode, r) ==
  IF mode = "text" THEN GetTextTaskPrompt(r.task, r.text) ELSE GetOcrPrompt(r.context)

\* ------------------------------------------------------------- the router
\* Variant of Provider whose default case is the OpenAI provider.
ProviderDefaultOpenAI(llm) ==
  IF llm = "deepseek" THEN "deepseek"
  ELSE IF llm = "gemini" THEN "gemini"
  ELSE "openai"

\* switch (body.llm): 'deepseek', 'openai', and 'gemini' or default
Provider(llm) ==
  IF llm = "deepseek" THEN "deepseek"
  ELSE IF llm = "openai" THEN "openai"
  ELSE "gemini"

\* Variant of CredentialOf in which deepseek reads the OpenAI credential.
CredentialOfShared(provider) ==
  CASE provider = "deepseek" -> "OPENAI_API_KEY"
    [] provider = "openai"   -> "OPENAI_API_KEY"
    [] provider = "gemini"   -> "GEMINI_API_KEY"

\* process.env.X read by the case of a provider
CredentialOf(provider) ==
  CASE provider = "deepseek" -> "DEEPSEEK_API_KEY"
    [] provider = "openai"   -> "OPENAI_API_KEY"
    [] provider = "gemini"   -> "GEMINI_API_KEY"

\* if (req.body.task && req.body.text) ... if (req.body.image) ...
Mode(r) ==
  IF Truthy(r.task) /\ Truthy(r.text) THEN "text"
  ELSE IF Truthy(r.image) THEN "ocr"
  ELSE "invalid"

\* The adapter a case of the switch calls, with its URL and model.
AdapterCall(mode, provider, key) ==
  CASE mode = "text" /\ provider = "deepseek" ->
         [adapter |-> "handleOpenAICompatibleText", model |-> "deepseek-chat",
          url |-> "https://api.deepseek.com/chat/completions", key |-> key]
    [] mode = "text" /\ provider = "openai" ->
         [adapter |-> "handleOpenAICompatibleText", model |-> "gpt-4o-mini",
          url |-> "https://api.openai.com/v1/chat/completions", key |-> key]
    [] mode = "text" /\ provider = "gemini" ->
         [adapter |-> "handleGeminiText", model |-> "gemini-1.5-flash",
          url |-> "generateContent", key |-> key]
    [] mode = "ocr" /\ provider = "deepseek" ->
         [adapter |-> "handleOpenAICompatibleStream", model |-> "deepseek-vl-chat",
          url |-> "https://api.deepseek.com/chat/completions", key |-> key]
    [] mode = "ocr" /\ provider = "openai" ->
         [adapter |-> "handleOpenAICompatibleStream", model |-> "gpt-4o",
          url |-> "https://api.openai.com/v1/chat/completions", key |-> key]
    [] mode = "ocr" /\ provider = "gemini" ->
         [adapter |-> "handleGeminiStream", model |-> "gemini-pro-vision",
          url |-> "streamGenerateContent", key |-> key]

StreamAdapters == {"handleOpenAICompatibleStream", "handleGeminiStream"}
CurrentAdapter == adapterCalls[Len(adapterCalls)].adapter

\* Variant of Catch that only ends the response.
CatchEndsOnly(r, message) == End(r)

\* Variant of Catch that sends the 500 body whatever has been sent before.
CatchSendsAlways(r, message) ==
  Send(r, 500, ErrorBody(<<"Error processing your request: ">> \o message))

\* Variant of Catch that answers 500 without a body.
CatchStatusOnly(r, message) ==
  IF ~r.headersSent
  THEN [r EXCEPT !.statusCode = 500, !.headersSent = TRUE, !.ends = @ + 1]
  ELSE End(r)

\* The catch block of handler: log, then 500 with a JSON body when no byte of
\* the response has been sent, and a plain end of the response otherwise.
Catch(r, message) ==
  IF ~r.headersSent
  THEN Send(r, 500, ErrorBody(<<"Error processing your request: ">> \o message))
  ELSE End(r)

CatchLog(r) ==
  IF ~r.headersSent THEN <<"Error in Vercel Serverless Function:">>
  ELSE <<"Error in Vercel Serverless Function:",
         "Error occurred mid-stream. Closing connection.">>

\* Variant of Fetch that repeats the call once.
FetchWithRetry(calls, call) == Append(Append(calls, call), call)

\* await fetch(url, init): one call, recorded in the list of calls made.
Fetch(calls, call) == Append(calls, call)

\* Bytes the response puts on the wire for the fragments written.
Wire(chunks) == EncodeText(Flatten(chunks))

\* handler, from its call to the first await (the adapter's fetch) or to the
\* response it sends without calling an adapter.
HandlerStart ==
  /\ hpc = "start"
  /\ IF req.method # "POST"
     THEN /\ res' = Send([res EXCEPT !.allow = "POST"], 405,
                         ErrorBody(<<"Method Not Allowed">>))
          /\ hpc' = "done"
          /\ UNCHANGED <<adapterCalls, fetchCalls, serverLog>>
     ELSE IF req.body = "null"
     THEN \* req.body.task throws a TypeError inside the try block
          /\ res' = Catch(res, <<"Cannot read properties of null (reading 'task')">>)
          /\ serverLog' = serverLog \o CatchLog(res)
          /\ hpc' = "done"
          /\ UNCHANGED <<adapterCalls, fetchCalls>>
     ELSE IF Mode(req) = "invalid"
     THEN /\ res' = Send(res, 400, ErrorBody(<<"Invalid request body.">>))
          /\ hpc' = "done"
          /\ UNCHANGED <<adapterCalls, fetchCalls, serverLog>>
     ELSE LET provider == Provider(req.llm)
              key      == env[CredentialOf(provider)]
              call     == AdapterCall(Mode(req), provider, key)
          IN  IF ~Truthy(key)
              THEN /\ res' = Catch(res, <<CredentialOf(provider), " is not configured.">>)
                   /\ serverLog' = serverLog \o CatchLog(res)
                   /\ hpc' = "done"
                   /\ UNCHANGED <<adapterCalls, fetchCalls>>
              ELSE /\ adapterCalls' = Append(adapterCalls, call)
                   /\ fetchCalls' = Fetch(fetchCalls,
                        [url |-> call.url, model |-> call.model,
                         prompt |-> PromptOf(Mode(req), req)])
                   /\ hpc' = "fetch"
                   /\ UNCHANGED <<res, serverLog>>
  /\ UNCHANGED appvars
  /\ UNCHANGED auxvars
  /\ UNCHANGED <<req, env, apiResponse, upFrames, upTail, upstream,
                 decoderPending, buffer, readBoundaries, pipe>>

\* What the upstream may answer to a fetch.
UpstreamStatuses == {200, 401, 500}
StatusText(status) ==
  CASE status = 200 -> "200" [] status = 400 -> "400" [] status = 401 -> "401"
    [] status = 405 -> "405" [] status = 500 -> "500"
UpstreamErrorTexts == {<<"unauthorized">>, <<>>}
TextReplies == {"content", "nochoices"}
ReplyContent == <<" ", "a", " ">>

ApiErrorPrefix(adapter) ==
  IF adapter \in {"handleGeminiStream", "handleGeminiText"}
  THEN "Gemini API error: " ELSE "API error: "

\* fetch rejects: the error reaches the catch block of handler.
UpstreamFetchRejects ==
  /\ hpc = "fetch"
  /\ res' = Catch(res, <<"fetch failed">>)
  /\ serverLog' = serverLog \o CatchLog(res)
  /\ hpc' = "done"
  /\ UNCHANGED appvars
  /\ UNCHANGED auxvars
  /\ UNCHANGED <<req, env, adapterCalls, fetchCalls, apiResponse, upFrames, upTail, upstream,
                 decoderPending, buffer, readBoundaries, pipe>>

\* fetch resolves with a non-success status: if (!apiResponse.ok) throw ...
UpstreamErrorStatus ==
  /\ hpc = "fetch"
  /\ \E status \in UpstreamStatuses \ {200}, text \in UpstreamErrorTexts :
       /\ apiResponse' = [status |-> status, text |-> text]
       /\ res' = Catch(res, <<ApiErrorPrefix(CurrentAdapter), StatusText(status), " ">> \o text)
  /\ serverLog' = serverLog \o CatchLog(res)
  /\ hpc' = "done"
  /\ UNCHANGED appvars
  /\ UNCHANGED auxvars
  /\ UNCHANGED <<req, env, adapterCalls, fetchCalls, upFrames, upTail, upstream,
                 decoderPending, buffer, readBoundaries, pipe>>

\* fetch resolves ok in a stream adapter: setHeader, getReader, new decoder.
UpstreamStreamOk ==
  /\ hpc = "fetch"
  /\ CurrentAdapter \in StreamAdapters
  /\ apiResponse' = [status |-> 200, text |-> <<>>]
  /\ res' = [res EXCEPT !.contentType = "text/plain; charset=utf-8"]
  /\ upstream' = BodyBytes(upFrames) \o upTail
  /\ decoderPending' = <<>>
  /\ buffer' = <<>>
  /\ hpc' = "read"
  /\ UNCHANGED appvars
  /\ UNCHANGED auxvars
  /\ UNCHANGED <<req, env, adapterCalls, fetchCalls, upFrames, upTail, serverLog,
                 readBoundaries, pipe>>

\* What a text adapter makes of an ok reply: json.choices[0]?.message
\* ?.content?.trim() || '' throws when the reply has no choices array, while
\* json.candidates?.[0]?... of handleGeminiText gives ''.
TextAdapterResult(adapter, reply) ==
  IF reply = "nochoices" /\ adapter = "handleOpenAICompatibleText"
  THEN Thrown(<<"Cannot read properties of undefined">>)
  ELSE Returned(IF reply = "content" THEN Trim(ReplyContent) ELSE <<>>)

\* fetch resolves ok in a text adapter: the reply is parsed and sent.
UpstreamTextOk ==
  /\ hpc = "fetch"
  /\ CurrentAdapter \notin StreamAdapters
  /\ \E reply \in TextReplies :
       LET result == TextAdapterResult(CurrentAdapter, reply)
       IN  IF result.kind = "thrown"
           THEN /\ res' = Catch(res, result.value)
                /\ serverLog' = serverLog \o CatchLog(res)
           ELSE /\ res' = Send(res, 200, ResultBody(result.value))
                /\ UNCHANGED serverLog
  /\ apiResponse' = [status |-> 200, text |-> <<>>]
  /\ hpc' = "done"
  /\ UNCHANGED appvars
  /\ UNCHANGED auxvars
  /\ UNCHANGED <<req, env, adapterCalls, fetchCalls, upFrames, upTail, upstream,
                 decoderPending, buffer, readBoundaries, pipe>>

\* reader.read() resolves with the next n bytes: one iteration of the loop of
\* the stream adapter that is running.
ReadChunk ==
  /\ hpc = "read"
  /\ upstream # <<>>
  /\ \E n \in 1..Len(upstream) :
       LET value == SubSeq(upstream, 1, n)
           rest  == SubSeq(upstream, n + 1, Len(upstream))
       IN  /\ upstream' = rest
           /\ IF CurrentAdapter = "handleOpenAICompatibleStream"
              THEN LET r == RelayRead(decoderPending, buffer, value)
                   IN  /\ decoderPending' = r.pending
                       /\ buffer' = r.buffer
                       /\ res' = WriteAll(res, r.writes)
                       /\ pipe' = pipe \o Wire(r.writes)
                       /\ serverLog' = serverLog \o [i \in 1..r.errors |-> "Error parsing stream JSON:"]
                       /\ readBoundaries' = readBoundaries
                            \cup (IF r.pending # <<>> THEN {"char"} ELSE {})
                            \cup (IF r.buffer # <<>> /\ rest # <<>> THEN {"line"} ELSE {})
              ELSE LET g == GeminiRead(value)
                   IN  /\ res' = WriteAll(res, g.writes)
                       /\ pipe' = pipe \o Wire(g.writes)
                       /\ serverLog' = serverLog \o [i \in 1..g.errors |-> "Error parsing Gemini stream chunk:"]
                       /\ readBoundaries' = readBoundaries
                            \cup (IF DecodeBytes(<<>>, value).pending # <<>> THEN {"char"} ELSE {})
                            \cup (IF value[n] # "NL" /\ rest # <<>> THEN {"line"} ELSE {})
                       /\ UNCHANGED <<decoderPending, buffer>>
  /\ UNCHANGED appvars
  /\ UNCHANGED auxvars
  /\ UNCHANGED <<req, env, hpc, adapterCalls, fetchCalls, apiResponse, upFrames, upTail>>

\* reader.read() resolves with done: break, return to handler, res.end().
ReadDone ==
  /\ hpc = "read"
  /\ upstream = <<>>
  /\ res' = End(res)
  /\ hpc' = "done"
  /\ UNCHANGED appvars
  /\ UNCHANGED auxvars
  /\ UNCHANGED <<req, env, adapterCalls, fetchCalls, apiResponse, upFrames, upTail, upstream,
                 decoderPending, buffer, serverLog, readBoundaries, pipe>>

\* reader.read() rejects (the upstream connection dropped): catch block.
ReadFail ==
  /\ hpc = "read"
  /\ res' = Catch(res, <<"terminated">>)
  /\ serverLog' = serverLog \o CatchLog(res)
  /\ hpc' = "done"
  /\ UNCHANGED appvars
  /\ UNCHANGED auxvars
  /\ UNCHANGED <<req, env, adapterCalls, fetchCalls, apiResponse, upFrames, upTail, upstream,
                 decoderPending, buffer, readBoundaries, pipe>>

\* ------------------------------------------- extractTextFromImageStream
NoToast == [type |-> "none", message |-> <<>>]
Separator == "<br><br>---<br><br>"

\* JSON text of a body sent with res.send, as response.text() returns it.
JsonText(body) == <<"{", body.field, ":">> \o body.value \o <<"}">>

\* Variant of AppendChunk that sets the document to the chunk.
AppendChunkReplacing(prevDoc, first, chunk) == chunk

\* The body of handleFileReady's for-await loop: the two setLivingDocument
\* updaters applied to prevDoc for one chunk.
AppendChunk(prevDoc, first, chunk) ==
  (IF first THEN prevDoc \o (IF prevDoc # <<>> THEN <<Separator>> ELSE <<>>)
   ELSE prevDoc) \o chunk

\* Variant of Accumulate that keeps the chunk read last.
AccumulateLast(full, chunk) == chunk

\* fullExtractedText += chunk
Accumulate(full, chunk) == full \o chunk

\* JSON.stringify of the history: an array of items, each item the object
\* that carries the text.
RECURSIVE JsonItems(_)
JsonItems(history) ==
  IF history = <<>> THEN <<>>
  ELSE <<"{">> \o Head(history) \o <<"}">>
       \o (IF Len(history) > 1 THEN <<",">> ELSE <<>>)
       \o JsonItems(Tail(history))

JsonStringify(history) == <<"[">> \o JsonItems(history) \o <<"]">>

\* useState<string>('Untitled Document')
DefaultTitle == <<"Untitled Document">>

\* An entry of localStorage is <<>> when absent (getItem returns null) and
\* <<value>> when set.
NoEntry == <<>>
Entry(value) == <<value>>

\* The save-history effect, which runs after every render that changed
\* extractionHistory: localStorage.setItem('extractionHistory', JSON.stringify(...))
SaveHistory(storage, history) ==
  [storage EXCEPT !.history = Entry(JsonStringify(history))]

\* The context the App starts with: useState<string>('general')
OcrContext == "general"

\* The request extractTextFromImageStream posts to /api/extract-text.
ClientRequest(llm) ==
  [method |-> "POST", body |-> "object", task |-> Undefined, text |-> Undefined,
   image |-> "base64", context |-> OcrContext, llm |-> llm]

\* const tempImageUrl = URL.createObjectURL(file)
TempImageUrl == "blob:1"

\* Variant of ExtractionThrows without the finally block of handleFileReady.
ExtractionThrowsNoFinally(message) ==
  /\ clientLog' = Append(clientLog, "Error extracting text from image:")
  /\ toast' = [type |-> "error", message |-> <<"Extraction failed: ">> \o message]
  /\ toasts' = toasts \cup {[type |-> "error", message |-> <<"Extraction failed: ">> \o message]}
  /\ UNCHANGED <<isLoading, imageUrl, objectUrls>>
  /\ apc' = "done"

\* The generator's catch block followed by the catch and finally blocks of
\* handleFileReady: the error is logged and rethrown as
\* 'Extraction failed: <message>', shown as an error toast, and the loading
\* state and the object URL are released.
ExtractionThrows(message) ==
  /\ clientLog' = Append(clientLog, "Error extracting text from image:")
  /\ toast' = [type |-> "error", message |-> <<"Extraction failed: ">> \o message]
  /\ toasts' = toasts \cup {[type |-> "error", message |-> <<"Extraction failed: ">> \o message]}
  /\ isLoading' = FALSE
  /\ imageUrl' = Undefined
  /\ objectUrls' = objectUrls \ {TempImageUrl}
  /\ apc' = "done"

\* handleFileReady up to the first await of the generator (preprocessImage),
\* or to its return when the file is refused.
HandleFileReady ==
  /\ apc = "idle"
  /\ tpc = "idle"
  /\ IF ~file.isImage
     THEN /\ toast' = [type |-> "error", message |-> <<"Invalid file type. Please upload an image.">>]
          /\ toasts' = toasts \cup {toast'}
          /\ apc' = "refused"
          /\ UNCHANGED <<isLoading, imageUrl, objectUrls, fullExtractedText, isFirstChunk,
                         docAtStart>>
     ELSE IF ~file.small
     THEN /\ toast' = [type |-> "error", message |-> <<"File is too large. Please upload an image under 10MB.">>]
          /\ toasts' = toasts \cup {toast'}
          /\ apc' = "refused"
          /\ UNCHANGED <<isLoading, imageUrl, objectUrls, fullExtractedText, isFirstChunk,
                         docAtStart>>
     ELSE /\ isLoading' = TRUE
          /\ docAtStart' = livingDocument
          /\ imageUrl' = TempImageUrl
          /\ objectUrls' = objectUrls \cup {TempImageUrl}
          /\ fullExtractedText' = <<>>
          /\ isFirstChunk' = TRUE
          /\ apc' = "preprocess"
          /\ UNCHANGED <<toast, toasts>>
  /\ UNCHANGED <<file, selectedLlm, yielded, livingDocument,
                 extractionHistory, hasUnsavedChanges, clientLog, pipe>>
  /\ UNCHANGED hvars
  /\ UNCHANGED <<tpc, taskResult, backendRequests>>
  /\ UNCHANGED auxvars

\* preprocessImage resolves: the generator posts the request to the backend.
PreprocessResolves ==
  /\ apc = "preprocess"
  /\ hpc = "idle"
  /\ req' = ClientRequest(selectedLlm)
  /\ backendRequests' = Fetch(backendRequests, req')
  /\ hpc' = "start"
  /\ apc' = "fetch"
  /\ UNCHANGED <<tpc, taskResult>>
  /\ UNCHANGED auxvars
  /\ UNCHANGED <<env, adapterCalls, fetchCalls, apiResponse, upFrames, upTail,
                 upstream, decoderPending, buffer, res, serverLog, readBoundaries>>
  /\ UNCHANGED <<file, selectedLlm, yielded, fullExtractedText, isFirstChunk,
                 docAtStart, livingDocument, extractionHistory, hasUnsavedChanges,
                 isLoading, imageUrl, objectUrls, toast, toasts, clientLog, pipe>>

\* What preprocessImage rejects with: an Error with a message, or the event
\* object of image.onerror / reader.onerror, which is no Error.
PreprocessRejections ==
  {<<"Could not get canvas context">>,
   <<"Failed to extract base64 string from preprocessed image.">>,
   <<>>}

PreprocessRejects ==
  /\ apc = "preprocess"
  /\ \E rejection \in PreprocessRejections :
       IF rejection # <<>>
       THEN ExtractionThrows(rejection)
       ELSE /\ clientLog' = Append(clientLog, "Error extracting text from image:")
            /\ toast' = [type |-> "error",
                         message |-> <<"An unknown error occurred during text extraction.">>]
            /\ toasts' = toasts \cup {toast'}
            /\ isLoading' = FALSE
            /\ imageUrl' = Undefined
            /\ objectUrls' = objectUrls \ {TempImageUrl}
            /\ apc' = "done"
  /\ UNCHANGED <<file, selectedLlm, yielded, fullExtractedText, isFirstChunk,
                 docAtStart, livingDocument, extractionHistory, hasUnsavedChanges, pipe>>
  /\ UNCHANGED hvars
  /\ UNCHANGED <<tpc, taskResult, backendRequests>>
  /\ UNCHANGED auxvars

\* fetch('/api/extract-text') rejects: the backend cannot be reached.
ClientFetchRejects ==
  /\ apc = "fetch"
  /\ ExtractionThrows(<<"Failed to fetch">>)
  /\ UNCHANGED <<file, selectedLlm, yielded, fullExtractedText, isFirstChunk,
                 docAtStart, livingDocument, extractionHistory, hasUnsavedChanges, pipe>>
  /\ UNCHANGED hvars
  /\ UNCHANGED <<tpc, taskResult, backendRequests>>
  /\ UNCHANGED auxvars

\* fetch resolves once the backend has sent its headers: the checks of
\* response.ok and response.body, then getReader.
ClientFetchResolves ==
  /\ apc = "fetch"
  /\ res.headersSent
  /\ IF res.statusCode \notin 200..299
     THEN ExtractionThrows(<<"Backend error: ", StatusText(res.statusCode), " ">>
                           \o JsonText(res.sent))
     ELSE \E hasBody \in BOOLEAN :
            IF ~hasBody
            THEN ExtractionThrows(<<"Response body is empty.">>)
            ELSE /\ apc' = "read"
                 /\ UNCHANGED <<toast, toasts, isLoading, imageUrl, objectUrls, clientLog>>
  /\ UNCHANGED <<file, selectedLlm, yielded, fullExtractedText, isFirstChunk,
                 docAtStart, livingDocument, extractionHistory, hasUnsavedChanges, pipe>>
  /\ UNCHANGED hvars
  /\ UNCHANGED <<tpc, taskResult, backendRequests>>
  /\ UNCHANGED auxvars

\* reader.read() resolves with the next n bytes of the response: the chunk
\* is decoded and yielded, and the loop body of handleFileReady appends it.
ClientRead ==
  /\ apc = "read"
  /\ pipe # <<>>
  /\ \E n \in 1..Len(pipe) :
       LET chunk == DecodeNoStream(SubSeq(pipe, 1, n))
       IN  /\ pipe' = SubSeq(pipe, n + 1, Len(pipe))
           /\ yielded' = Append(yielded, chunk)
           /\ fullExtractedText' = Accumulate(fullExtractedText, chunk)
           /\ livingDocument' = AppendChunk(livingDocument, isFirstChunk, chunk)
           /\ isFirstChunk' = FALSE
  /\ UNCHANGED <<apc, file, selectedLlm, docAtStart, extractionHistory,
                 hasUnsavedChanges, isLoading, imageUrl, objectUrls, toast, toasts,
                 clientLog>>
  /\ UNCHANGED hvars
  /\ UNCHANGED <<tpc, taskResult, backendRequests>>
  /\ UNCHANGED auxvars

\* reader.read() resolves with done: the generator returns and
\* handleFileReady records the result, then runs its finally block.
ClientReadDone ==
  /\ apc = "read"
  /\ pipe = <<>>
  /\ res.ends >= 1
  /\ IF fullExtractedText # <<>>
     THEN /\ extractionHistory' = <<fullExtractedText>> \o extractionHistory
          /\ localStorage' = SaveHistory(localStorage, extractionHistory')
          /\ hasUnsavedChanges' = TRUE
          /\ toast' = [type |-> "success", message |-> <<"Text extracted successfully!">>]
     ELSE /\ toast' = [type |-> "info", message |-> <<"Extraction resulted in empty text.">>]
          /\ UNCHANGED <<extractionHistory, hasUnsavedChanges, localStorage>>
  /\ toasts' = toasts \cup {toast'}
  /\ isLoading' = FALSE
  /\ imageUrl' = Undefined
  /\ objectUrls' = objectUrls \ {TempImageUrl}
  /\ apc' = "done"
  /\ UNCHANGED <<file, selectedLlm, yielded, fullExtractedText, isFirstChunk,
                 docAtStart, livingDocument, clientLog, pipe>>
  /\ UNCHANGED hvars
  /\ UNCHANGED <<tpc, taskResult, backendRequests>>
  /\ UNCHANGED <<documentTitle, userActions, isSummarizing, isSuggestingTitle>>
  /\ UNCHANGED <<pvars, svars, mvars, cvars>>

\* reader.read() rejects: the connection to the backend dropped.
ClientReadFails ==
  /\ apc = "read"
  /\ ExtractionThrows(<<"network error">>)
  /\ UNCHANGED <<file, selectedLlm, yielded, fullExtractedText, isFirstChunk,
                 docAtStart, livingDocument, extractionHistory, hasUnsavedChanges, pipe>>
  /\ UNCHANGED hvars
  /\ UNCHANGED <<tpc, taskResult, backendRequests>>
  /\ UNCHANGED auxvars

\* -------------------------------------------------------- preprocessImage
Threshold == 128

\* Variant of Color that compares the average truncated to an integer.
ColorOfTruncatedAverage(r, g, b) ==
  IF (r + g + b) \div 3 > Threshold THEN 255 ELSE 0

\* avg = (data[i] + data[i+1] + data[i+2]) / 3; color = avg > 128 ? 255 : 0.
\* The division is exact, not truncated: avg > 128 when the sum exceeds 3 * 128.
Color(r, g, b) ==
  IF r + g + b > 3 * Threshold THEN 255 ELSE 0

\* One iteration of the binarization loop. The array is indexed from 0 in the
\* code and from 1 here.
BinarizeStep ==
  /\ loopI < Len(pixelData)
  /\ LET color == Color(pixelData[loopI + 1], pixelData[loopI + 2], pixelData[loopI + 3])
     IN  pixelData' = [pixelData EXCEPT ![loopI + 1] = color,
                                        ![loopI + 2] = color,
                                        ![loopI + 3] = color]
  /\ loopI' = loopI + 4
  /\ UNCHANGED imageData
  /\ UNCHANGED <<hvars, pipe, appvars, svars, uivars, mvars, cvars>>

\* ------------------------------------------------ verify_deepseek_mock.js
\* getTextTaskPrompt of the script: case 'title' and default share a branch.
ScriptGetTextTaskPrompt(task, text) ==
  CASE task = "summarize" ->
         <<"Summarize the following text in one or two paragraphs. Focus on the key points and main arguments. The text is: \"",
           text, "\"">>
    [] OTHER ->
         <<"Generate a concise, descriptive title (5 words or less) for the following document. Do not use quotation marks in the title. The document text is: \"",
           text, "\"">>

\* handleOpenAICompatibleText of the script on an upstream response:
\* json.choices?.[0]?.message?.content?.trim() || ''
ScriptHandleOpenAICompatibleText(body, response) ==
  [prompt  |-> ScriptGetTextTaskPrompt(body.task, body.text),
   outcome |-> IF response.status # 200
               THEN Thrown(<<"API error: ", StatusText(response.status), " ">>
                           \o response.text)
               ELSE Returned(IF response.reply = "content"
                             THEN Trim(ReplyContent) ELSE <<>>)]

\* handleOpenAICompatibleText of the backend on the same response.
HandleOpenAICompatibleText(body, response) ==
  [prompt  |-> GetTextTaskPrompt(body.task, body.text),
   outcome |-> IF response.status # 200
               THEN Thrown(<<"API error: ", StatusText(response.status), " ">>
                           \o response.text)
               ELSE TextAdapterResult("handleOpenAICompatibleText", response.reply)]

NotRun == [prompt |-> <<>>, outcome |-> NoResult]

\* The script runs its copy of the text handling.
ScriptRuns ==
  /\ scriptReply.status # 0
  /\ scriptRun = NotRun
  /\ scriptRun' = ScriptHandleOpenAICompatibleText(scriptBody, scriptReply)
  /\ UNCHANGED <<scriptBody, scriptReply, backendRun>>
  /\ UNCHANGED <<hvars, pipe, appvars, pvars, uivars, mvars, cvars>>

\* The backend's functions run on the same body and response.
BackendRuns ==
  /\ scriptReply.status # 0
  /\ backendRun = NotRun
  /\ backendRun' = HandleOpenAICompatibleText(scriptBody, scriptReply)
  /\ UNCHANGED <<scriptBody, scriptReply, scriptRun>>
  /\ UNCHANGED <<hvars, pipe, appvars, pvars, uivars, mvars, cvars>>

\* ------------------------------------------------------ processTextWithAI
\* The variables of handleFileReady and of the App state it works on.
extractionvars == <<apc, file, selectedLlm, yielded, fullExtractedText, isFirstChunk,
                    docAtStart, livingDocument, extractionHistory, hasUnsavedChanges,
                    isLoading, imageUrl, objectUrls, toast, toasts, pipe>>

\* The request processTextWithAI posts to /api/extract-text.
TextRequest(text, task, llm) ==
  [method |-> "POST", body |-> "object", task |-> task, text |-> text,
   image |-> Undefined, context |-> Undefined, llm |-> llm]

TextTasks == {"summarize", "title"}
TaskTexts == {"", "t"}

\* The catch block of processTextWithAI: log and rethrow.
TextTaskThrows(message) ==
  /\ clientLog' = Append(clientLog, "Error during AI task")
  /\ taskResult' = Thrown(<<"AI task failed: ">> \o message)
  /\ tpc' = "done"

\* processTextWithAI(text, task, llm) up to its await of fetch.
ProcessTextWithAI ==
  /\ tpc = "idle"
  /\ apc = "idle"
  /\ hpc = "idle"
  /\ \E text \in TaskTexts, task \in TextTasks :
       req' = TextRequest(text, task, selectedLlm)
  /\ backendRequests' = Fetch(backendRequests, req')
  /\ hpc' = "start"
  /\ tpc' = "fetch"
  /\ UNCHANGED <<env, adapterCalls, fetchCalls, apiResponse, upFrames, upTail,
                 upstream, decoderPending, buffer, res, serverLog, readBoundaries>>
  /\ UNCHANGED <<taskResult, clientLog>>
  /\ UNCHANGED extractionvars
  /\ UNCHANGED auxvars

\* fetch('/api/extract-text') rejects: the backend cannot be reached.
TextFetchRejects ==
  /\ tpc = "fetch"
  /\ TextTaskThrows(<<"Failed to fetch">>)
  /\ UNCHANGED backendRequests
  /\ UNCHANGED extractionvars
  /\ UNCHANGED auxvars
  /\ UNCHANGED hvars

\* fetch resolves with the response of the backend: the check of
\* response.ok, then response.json() and data.result.
TextFetchResolves ==
  /\ tpc = "fetch"
  /\ res.headersSent
  /\ res.ends >= 1
  /\ IF res.statusCode \notin 200..299
     THEN TextTaskThrows(<<"AI processing error: ", StatusText(res.statusCode), " ">>
                         \o JsonText(res.sent))
     ELSE IF res.sent.field = "none"
     THEN TextTaskThrows(<<"Unexpected end of JSON input">>)
     ELSE /\ taskResult' = Returned(IF res.sent.field = "result"
                                    THEN res.sent.value ELSE <<Undefined>>)
          /\ tpc' = "done"
          /\ UNCHANGED clientLog
  /\ UNCHANGED backendRequests
  /\ UNCHANGED extractionvars
  /\ UNCHANGED auxvars
  /\ UNCHANGED hvars

\* ------------------------------------------------------ the App's handlers
MaxUiActions == 2

\* What the UI handlers never touch.
uiframe == <<hvars, pipe, pvars, svars, mvars, cvars, apc, file, selectedLlm, yielded,
             fullExtractedText, isFirstChunk, docAtStart, isLoading, imageUrl,
             objectUrls, tpc, taskResult, backendRequests>>

ScriptElement == "<script>x</script>"
EventHandler == " onclick=\"x\""

\* sanitizeHtml: script elements and on* event handlers are removed.
SanitizeHtml(html) ==
  SelectSeq(html, LAMBDA t : t \notin {ScriptElement, EventHandler})

\* showToast(message, type)
ShowToast(type, message) ==
  /\ toast' = [type |-> type, message |-> message]
  /\ UNCHANGED toasts

\* The user acts in the UI at most MaxUiActions times.
UserDoes(action) ==
  /\ Len(userActions) < MaxUiActions
  /\ userActions' = Append(userActions, action)

\* What the user may turn the editor's content into.
TypedContents(doc) == {<<>>, Append(doc, ScriptElement)}
TypedTitles == {<<>>, <<"N">>}

\* handleDocumentChange(newContent)
HandleDocumentChange ==
  /\ UserDoes("edit")
  /\ \E newContent \in TypedContents(livingDocument) : livingDocument' = newContent
  /\ hasUnsavedChanges' = TRUE
  /\ UNCHANGED <<extractionHistory, toast, toasts, clientLog, documentTitle, localStorage,
                 isSummarizing, isSuggestingTitle>>
  /\ UNCHANGED uiframe

\* handleTitleChange(newTitle)
HandleTitleChange ==
  /\ UserDoes("title")
  /\ \E newTitle \in TypedTitles : documentTitle' = newTitle
  /\ hasUnsavedChanges' = TRUE
  /\ UNCHANGED <<livingDocument, extractionHistory, toast, toasts, clientLog, localStorage,
                 isSummarizing, isSuggestingTitle>>
  /\ UNCHANGED uiframe

\* Variant of HandleSaveDocument that stores the content and leaves
\* hasUnsavedChanges as it is.
HandleSaveDocumentKeepsFlag ==
  /\ hasUnsavedChanges
  /\ UserDoes("save")
  /\ localStorage' = [localStorage EXCEPT !.content = Entry(SanitizeHtml(livingDocument)),
                                          !.title = Entry(documentTitle)]
  /\ livingDocument' = SanitizeHtml(livingDocument)
  /\ ShowToast("success", <<"Document saved to browser storage.">>)
  /\ UNCHANGED <<hasUnsavedChanges, clientLog>>
  /\ UNCHANGED <<extractionHistory, documentTitle, isSummarizing, isSuggestingTitle>>
  /\ UNCHANGED uiframe

\* handleSaveDocument, behind a button that is disabled without unsaved
\* changes. setItem throws when the quota is exceeded: at the content, or at
\* the title after the content was stored.
HandleSaveDocument ==
  /\ hasUnsavedChanges
  /\ \E thrownAt \in {"nowhere", "content", "title"} :
       IF thrownAt = "nowhere"
       THEN /\ UserDoes("save")
            /\ localStorage' = [localStorage EXCEPT
                                  !.content = Entry(SanitizeHtml(livingDocument)),
                                  !.title = Entry(documentTitle)]
            /\ livingDocument' = SanitizeHtml(livingDocument)
            /\ hasUnsavedChanges' = FALSE
            /\ ShowToast("success", <<"Document saved to browser storage.">>)
            /\ UNCHANGED clientLog
       ELSE /\ UserDoes("saveFailed")
            /\ localStorage' = IF thrownAt = "title"
                               THEN [localStorage EXCEPT
                                       !.content = Entry(SanitizeHtml(livingDocument))]
                               ELSE localStorage
            /\ clientLog' = Append(clientLog, "Failed to save to localStorage:")
            /\ ShowToast("error", <<"Failed to save document.">>)
            /\ UNCHANGED <<livingDocument, hasUnsavedChanges>>
  /\ UNCHANGED <<extractionHistory, documentTitle, isSummarizing, isSuggestingTitle>>
  /\ UNCHANGED uiframe

\* Variant of HandleClearDocument that never asks for confirmation.
HandleClearDocumentUnasked ==
  /\ livingDocument # <<>>
  /\ \E confirmed \in BOOLEAN :
       /\ UserDoes(IF hasUnsavedChanges /\ ~confirmed THEN "clearDeclined" ELSE "clear")
       /\ livingDocument' = <<>>
       /\ documentTitle' = DefaultTitle
       /\ hasUnsavedChanges' = FALSE
       /\ localStorage' = [localStorage EXCEPT !.content = NoEntry, !.title = NoEntry]
       /\ ShowToast("info", <<"Document cleared.">>)
  /\ UNCHANGED <<extractionHistory, clientLog, isSummarizing, isSuggestingTitle>>
  /\ UNCHANGED uiframe

\* handleClearDocument, behind a button that is disabled on an empty
\* document: window.confirm is asked only with unsaved changes.
HandleClearDocument ==
  /\ livingDocument # <<>>
  /\ \E confirmed \in BOOLEAN :
       IF hasUnsavedChanges /\ ~confirmed
       THEN /\ UserDoes("clearDeclined")
            /\ UNCHANGED <<livingDocument, documentTitle, hasUnsavedChanges, localStorage,
                           toast, toasts>>
       ELSE /\ UserDoes("clear")
            /\ livingDocument' = <<>>
            /\ documentTitle' = DefaultTitle
            /\ hasUnsavedChanges' = FALSE
            /\ localStorage' = [localStorage EXCEPT !.content = NoEntry, !.title = NoEntry]
            /\ ShowToast("info", <<"Document cleared.">>)
  /\ UNCHANGED <<extractionHistory, clientLog, isSummarizing, isSuggestingTitle>>
  /\ UNCHANGED uiframe

\* handleClearHistory, behind a button shown with a non-empty history: the
\* entry is removed, and the save-history effect that follows the render
\* writes the empty history.
HandleClearHistory ==
  /\ extractionHistory # <<>>
  /\ UserDoes("clearHistory")
  /\ extractionHistory' = <<>>
  /\ localStorage' = SaveHistory([localStorage EXCEPT !.history = NoEntry], <<>>)
  /\ ShowToast("info", <<"Extraction history cleared.">>)
  /\ UNCHANGED <<livingDocument, hasUnsavedChanges, clientLog, documentTitle,
                 isSummarizing, isSuggestingTitle>>
  /\ UNCHANGED uiframe

\* handleAppendToDocument(item.text), from the Append button of a history item.
HandleAppendToDocument ==
  /\ UserDoes("append")
  /\ \E i \in 1..Len(extractionHistory) :
       livingDocument' = livingDocument
                         \o (IF livingDocument # <<>> THEN <<Separator>> ELSE <<>>)
                         \o extractionHistory[i]
  /\ hasUnsavedChanges' = TRUE
  /\ ShowToast("info", <<"Appended to document.">>)
  /\ UNCHANGED <<extractionHistory, clientLog, documentTitle, localStorage,
                 isSummarizing, isSuggestingTitle>>
  /\ UNCHANGED uiframe

\* What processTextWithAI gives the handler that awaits it.
TaskOutcomes == {Returned(<<"A">>), Thrown(<<"AI task failed: Failed to fetch">>)}

SummaryHtml(summary) == <<"<h2>Summary</h2><p>">> \o summary \o <<"</p><br><hr><br>">>

\* handleSummarize up to its await of processTextWithAI.
HandleSummarize ==
  /\ ~isSummarizing
  /\ UserDoes("summarize")
  /\ IF livingDocument = <<>>
     THEN /\ ShowToast("info", <<"Cannot summarize an empty document.">>)
          /\ UNCHANGED isSummarizing
     ELSE /\ isSummarizing' = TRUE
          /\ UNCHANGED <<toast, toasts>>
  /\ UNCHANGED <<livingDocument, extractionHistory, hasUnsavedChanges, clientLog,
                 documentTitle, localStorage, isSuggestingTitle>>
  /\ UNCHANGED uiframe

\* processTextWithAI settles: the rest of handleSummarize.
SummarizeSettles ==
  /\ isSummarizing
  /\ \E outcome \in TaskOutcomes :
       IF outcome.kind = "returned"
       THEN /\ livingDocument' = SummaryHtml(outcome.value) \o livingDocument
            /\ hasUnsavedChanges' = TRUE
            /\ ShowToast("success", <<"Summary added to document!">>)
       ELSE /\ ShowToast("error", outcome.value)
            /\ UNCHANGED <<livingDocument, hasUnsavedChanges>>
  /\ isSummarizing' = FALSE
  /\ UNCHANGED <<extractionHistory, clientLog, documentTitle, localStorage, userActions,
                 isSuggestingTitle>>
  /\ UNCHANGED uiframe

\* handleSuggestTitle up to its await of processTextWithAI.
HandleSuggestTitle ==
  /\ ~isSuggestingTitle
  /\ UserDoes("suggestTitle")
  /\ IF livingDocument = <<>>
     THEN /\ ShowToast("info", <<"Cannot suggest a title for an empty document.">>)
          /\ UNCHANGED isSuggestingTitle
     ELSE /\ isSuggestingTitle' = TRUE
          /\ UNCHANGED <<toast, toasts>>
  /\ UNCHANGED <<livingDocument, extractionHistory, hasUnsavedChanges, clientLog,
                 documentTitle, localStorage, isSummarizing>>
  /\ UNCHANGED uiframe

\* processTextWithAI settles: the rest of handleSuggestTitle.
SuggestTitleSettles ==
  /\ isSuggestingTitle
  /\ \E outcome \in TaskOutcomes :
       IF outcome.kind = "returned"
       THEN /\ documentTitle' = outcome.value
            /\ hasUnsavedChanges' = TRUE
            /\ ShowToast("success", <<"Title suggested by AI!">>)
       ELSE /\ ShowToast("error", outcome.value)
            /\ UNCHANGED <<documentTitle, hasUnsavedChanges>>
  /\ isSuggestingTitle' = FALSE
  /\ UNCHANGED <<livingDocument, extractionHistory, clientLog, localStorage, userActions,
                 isSummarizing>>
  /\ UNCHANGED uiframe

\* ------------------------------------------------------ the App's mount
ParseFail == [ok |-> FALSE, value |-> <<>>]

RECURSIVE SkipSpace(_)
SkipSpace(text) ==
  IF text # <<>> /\ Head(text) = " " THEN SkipSpace(Tail(text)) ELSE text

\* The index of the first tok in text, 0 when there is none.
IndexOf(text, tok) ==
  IF \E i \in 1..Len(text) : text[i] = tok
  THEN CHOOSE i \in 1..Len(text) :
         text[i] = tok /\ \A j \in 1..(i - 1) : text[j] # tok
  ELSE 0

\* The elements of a JSON array after its '[': mode is "first" before the
\* first element, "item" after a comma and "after" after an element.
RECURSIVE ParseElements(_, _, _)
ParseElements(text, acc, mode) ==
  LET u == SkipSpace(text)
  IN  IF u = <<>> THEN ParseFail
      ELSE IF Head(u) = "]"
      THEN IF mode # "item" /\ SkipSpace(Tail(u)) = <<>>
           THEN [ok |-> TRUE, value |-> acc] ELSE ParseFail
      ELSE IF Head(u) = ","
      THEN IF mode = "after" THEN ParseElements(Tail(u), acc, "item") ELSE ParseFail
      ELSE IF Head(u) = "{" /\ mode # "after" /\ IndexOf(u, "}") # 0
      THEN ParseElements(SubSeq(u, IndexOf(u, "}") + 1, Len(u)),
                         Append(acc, SubSeq(u, 2, IndexOf(u, "}") - 1)), "after")
      ELSE ParseFail

\* JSON.parse of a stored history: the array of items, or a SyntaxError.
\* White space between the tokens is skipped.
JsonParse(text) ==
  LET u == SkipSpace(text)
  IN  IF u # <<>> /\ Head(u) = "[" THEN ParseElements(Tail(u), <<>>, "first")
      ELSE ParseFail

\* No state update is queued.
NoPending == [documentTitle |-> NoEntry, livingDocument |-> NoEntry,
              extractionHistory |-> NoEntry]

\* if (savedX): the entry is there and is not the empty string.
Saved(entry) == entry # NoEntry /\ entry[1] # <<>>

\* The load effect: the three entries are read and the state updates are
\* queued; they take effect at the next render. JSON.parse throwing is
\* caught, after the title and the content were queued.
LoadEffect ==
  /\ mpc = "load"
  /\ LET history == IF Saved(localStorage.history)
                    THEN JsonParse(localStorage.history[1])
                    ELSE ParseFail
     IN  /\ pendingState' =
               [documentTitle |-> IF Saved(localStorage.title)
                                  THEN localStorage.title
                                  ELSE pendingState.documentTitle,
                livingDocument |-> IF Saved(localStorage.content)
                                   THEN Entry(SanitizeHtml(localStorage.content[1]))
                                   ELSE pendingState.livingDocument,
                extractionHistory |-> IF history.ok THEN Entry(history.value)
                                      ELSE pendingState.extractionHistory]
         /\ IF Saved(localStorage.history) /\ ~history.ok
            THEN /\ clientLog' = Append(clientLog, "Failed to load from localStorage:")
                 /\ toast' = [type |-> "error", message |-> <<"Could not load saved data.">>]
            ELSE UNCHANGED <<clientLog, toast>>
  /\ mpc' = "save"
  /\ UNCHANGED <<strictMode, effectRuns, storedAtMount, localStorage, documentTitle,
                 livingDocument, extractionHistory, userActions, isSummarizing,
                 isSuggestingTitle, hasUnsavedChanges, toasts>>
  /\ UNCHANGED <<hvars, pipe, pvars, svars, cvars, apc, file, selectedLlm, yielded,
                 fullExtractedText, isFirstChunk, docAtStart, isLoading, imageUrl,
                 objectUrls, tpc, taskResult, backendRequests>>

StrictModeRuns == 2

\* The save-history effect, with the extractionHistory of the render it
\* belongs to. In StrictMode the mount effects are run a second time before
\* the queued updates are rendered.
SaveHistoryEffect ==
  /\ mpc \in {"save", "rendered"}
  /\ localStorage' = SaveHistory(localStorage, extractionHistory)
  /\ IF mpc = "rendered"
     THEN /\ mpc' = "settled"
          /\ UNCHANGED effectRuns
     ELSE /\ effectRuns' = effectRuns + 1
          /\ mpc' = IF strictMode /\ effectRuns' < StrictModeRuns THEN "load"
                    ELSE IF pendingState # NoPending THEN "render"
                    ELSE "settled"
  /\ UNCHANGED <<strictMode, pendingState, storedAtMount, documentTitle, livingDocument,
                 extractionHistory, userActions, isSummarizing, isSuggestingTitle,
                 hasUnsavedChanges, toast, toasts, clientLog>>
  /\ UNCHANGED <<hvars, pipe, pvars, svars, cvars, apc, file, selectedLlm, yielded,
                 fullExtractedText, isFirstChunk, docAtStart, isLoading, imageUrl,
                 objectUrls, tpc, taskResult, backendRequests>>

\* The render that applies the queued updates: for each state the update
\* queued last. The save-history effect follows when extractionHistory was set.
Render ==
  /\ mpc = "render"
  /\ documentTitle' = IF pendingState.documentTitle # NoEntry
                      THEN pendingState.documentTitle[1] ELSE documentTitle
  /\ livingDocument' = IF pendingState.livingDocument # NoEntry
                       THEN pendingState.livingDocument[1] ELSE livingDocument
  /\ extractionHistory' = IF pendingState.extractionHistory # NoEntry
                          THEN pendingState.extractionHistory[1] ELSE extractionHistory
  /\ pendingState' = NoPending
  /\ mpc' = IF pendingState.extractionHistory # NoEntry THEN "rendered" ELSE "settled"
  /\ UNCHANGED <<strictMode, effectRuns, storedAtMount, localStorage, userActions,
                 isSummarizing, isSuggestingTitle, hasUnsavedChanges, toast, toasts,
                 clientLog>>
  /\ UNCHANGED <<hvars, pipe, pvars, svars, cvars, apc, file, selectedLlm, yielded,
                 fullExtractedText, isFirstChunk, docAtStart, isLoading, imageUrl,
                 objectUrls, tpc, taskResult, backendRequests>>

\* ------------------------------------------------------------ CameraModal
MaxOpens == 3

\* What CameraModal never touches.
cameraframe == <<hvars, pipe, appvars, pvars, svars, uivars, mvars>>

\* The cleanup of the effect: it stops the tracks of the stream its effect
\* closed over, the stream state of the render that ran the effect, and
\* sets the state to null.
ShouldStop(closedOver) == IF closedOver # 0 THEN {closedOver} ELSE {}

\* The camera button: setIsCameraOpen(true). The render runs the cleanup of
\* the effect before and then the effect, which calls getUserMedia.
OpenCamera ==
  /\ cameraMounted
  /\ ~isCameraOpen
  /\ getUserMediaCalls < MaxOpens
  /\ isCameraOpen' = TRUE
  /\ liveStreams' = liveStreams \ ShouldStop(effectStream)
  /\ stream' = IF effectStream # 0 THEN 0 ELSE stream
  /\ effectStream' = stream
  /\ cameraError' = FALSE
  /\ getUserMediaCalls' = getUserMediaCalls + 1
  /\ getUserMediaPending' = getUserMediaPending \cup {getUserMediaCalls'}
  /\ UNCHANGED cameraMounted
  /\ UNCHANGED cameraframe

\* onClose or handleCameraCapture: setIsCameraOpen(false). The render runs
\* the cleanup of the effect before and then the effect, which does nothing
\* as isOpen is false.
CloseCamera ==
  /\ cameraMounted
  /\ isCameraOpen
  /\ isCameraOpen' = FALSE
  /\ liveStreams' = liveStreams \ ShouldStop(effectStream)
  /\ stream' = IF effectStream # 0 THEN 0 ELSE stream
  /\ effectStream' = stream
  /\ UNCHANGED <<cameraError, getUserMediaCalls, getUserMediaPending, cameraMounted>>
  /\ UNCHANGED cameraframe

\* getUserMedia resolves with a new MediaStream: setStream(mediaStream),
\* whether or not the modal is still open.
GetUserMediaResolves ==
  /\ \E call \in getUserMediaPending :
       /\ getUserMediaPending' = getUserMediaPending \ {call}
       /\ liveStreams' = liveStreams \cup {call}
       /\ stream' = IF cameraMounted THEN call ELSE stream
  /\ UNCHANGED <<isCameraOpen, effectStream, cameraError, getUserMediaCalls, cameraMounted>>
  /\ UNCHANGED cameraframe

\* getUserMedia rejects: setCameraError.
GetUserMediaRejects ==
  /\ \E call \in getUserMediaPending :
       getUserMediaPending' = getUserMediaPending \ {call}
  /\ cameraError' = cameraMounted
  /\ UNCHANGED <<isCameraOpen, stream, effectStream, liveStreams, getUserMediaCalls,
                 cameraMounted>>
  /\ UNCHANGED cameraframe

\* The component is unmounted: the cleanup of the current effect runs.
UnmountCamera ==
  /\ cameraMounted
  /\ cameraMounted' = FALSE
  /\ isCameraOpen' = FALSE
  /\ liveStreams' = liveStreams \ ShouldStop(effectStream)
  /\ UNCHANGED <<stream, effectStream, cameraError, getUserMediaCalls, getUserMediaPending>>
  /\ UNCHANGED cameraframe

\* ------------------------------------------------------- specifications

\* The App before handleFileReady is called, with document doc.
AppIdle(doc) ==
  /\ apc = "idle"
  /\ pipe = <<>>
  /\ yielded = <<>>
  /\ fullExtractedText = <<>>
  /\ isFirstChunk = TRUE
  /\ docAtStart = doc
  /\ livingDocument = doc
  /\ extractionHistory = <<>>
  /\ hasUnsavedChanges = FALSE
  /\ isLoading = FALSE
  /\ imageUrl = Undefined
  /\ objectUrls = {}
  /\ toast = NoToast
  /\ toasts = {}
  /\ clientLog = <<>>
  /\ tpc = "idle"
  /\ taskResult = NoResult
  /\ backendRequests = <<>>

\* The backend under environment e before any request has reached it.
HandlerIdle(e) ==
  /\ req = [method |-> Undefined, body |-> "object", task |-> Undefined,
            text |-> Undefined, image |-> Undefined, context |-> Undefined,
            llm |-> Undefined]
  /\ env = e
  /\ hpc = "idle"
  /\ adapterCalls = <<>>
  /\ fetchCalls = <<>>
  /\ apiResponse = [status |-> 0, text |-> <<>>]
  /\ upstream = <<>>
  /\ decoderPending = <<>>
  /\ buffer = <<>>
  /\ res = NewResponse
  /\ serverLog = <<>>
  /\ readBoundaries = {}

\* The backend with request r under environment e, about to run handler.
HandlerCalled(r, e) ==
  /\ req = r
  /\ env = e
  /\ hpc = "start"
  /\ adapterCalls = <<>>
  /\ fetchCalls = <<>>
  /\ apiResponse = [status |-> 0, text |-> <<>>]
  /\ upstream = <<>>
  /\ decoderPending = <<>>
  /\ buffer = <<>>
  /\ res = NewResponse
  /\ serverLog = <<>>
  /\ readBoundaries = {}

OcrRequest(llm) ==
  [method |-> "POST", body |-> "object", task |-> Undefined, text |-> Undefined,
   image |-> "base64", context |-> OcrContext, llm |-> llm]

AllConfigured == [c \in CredentialNames |-> "key"]

\* The text handling is not being compared.
NoScript ==
  /\ scriptBody = [task |-> Undefined, text |-> Undefined]
  /\ scriptReply = [status |-> 0, reply |-> "none", text |-> <<>>]
  /\ scriptRun = NotRun
  /\ backendRun = NotRun

\* localStorage after the App was mounted on an empty storage: the
\* save-history effect has written the empty history.
MountedOnEmptyStorage ==
  [content |-> NoEntry, title |-> NoEntry, history |-> Entry(JsonStringify(<<>>))]

\* The user does nothing in the UI besides handing in a file.
NoUi ==
  /\ documentTitle = DefaultTitle
  /\ localStorage = MountedOnEmptyStorage
  /\ userActions = <<>>
  /\ isSummarizing = FALSE
  /\ isSuggestingTitle = FALSE

\* The mount of the App is over.
NoMount ==
  /\ mpc = "settled"
  /\ strictMode = FALSE
  /\ effectRuns = 1
  /\ pendingState = NoPending
  /\ storedAtMount = NoEntry

\* The camera modal is not mounted.
NoCamera ==
  /\ isCameraOpen = FALSE
  /\ stream = 0
  /\ effectStream = 0
  /\ getUserMediaPending = {}
  /\ liveStreams = {}
  /\ getUserMediaCalls = 0
  /\ cameraMounted = FALSE
  /\ cameraError = FALSE

\* No image is being preprocessed.
NoImage ==
  /\ imageData = <<>>
  /\ pixelData = <<>>
  /\ loopI = 0

\* The OpenAI-compatible relay on every upstream body of at most MaxFrames
\* frames, delivered completely in every partition into reads.
RelayInit ==
  /\ HandlerCalled(OcrRequest("openai"), AllConfigured)
  /\ upFrames \in SeqsUpTo(FrameKinds, MaxFrames)
  /\ upTail \in Tails
  /\ AppIdle(<<>>)
  /\ file = [isImage |-> TRUE, small |-> TRUE]
  /\ selectedLlm = "openai"
  /\ NoImage
  /\ NoScript
  /\ NoUi
  /\ NoMount
  /\ NoCamera

RelayNext == HandlerStart \/ UpstreamStreamOk \/ ReadChunk \/ ReadDone

SpecRelay == RelayInit /\ [][RelayNext]_vars

\* The handler on every request body and environment, with every upstream
\* outcome.
NamedContexts == {"receipt", "handwriting", "book", "whiteboard", "quiz"}
Contexts == NamedContexts \cup {"general", "menu"}

Requests ==
  [method : {"POST", "GET"},
   body   : {"object"},
   task   : {Undefined, "summarize", "title", "other"},
   text   : {Undefined, "", "t"},
   image  : {Undefined, "", "base64"},
   context : {Undefined},
   llm    : {Undefined, "gemini", "deepseek", "openai", "DeepSeek"}]
  \cup
  \* the OCR requests with every context
  [method : {"POST"},
   body   : {"object"},
   task   : {Undefined},
   text   : {Undefined},
   image  : {"base64"},
   context : Contexts,
   llm    : {Undefined, "gemini", "deepseek", "openai"}]
  \cup
  \* a request whose JSON body is null, or that has no body: req.body has no
  \* property to read
  [method : {"POST", "GET"},
   body   : {"null"},
   task   : {Undefined},
   text   : {Undefined},
   image  : {Undefined},
   context : {Undefined},
   llm    : {Undefined}]

Environments ==
  [CredentialNames -> {Undefined, "key"}] \cup {[c \in CredentialNames |-> ""]}

HandlerBodies == {<<"a", "done">>, <<"e'", "a">>}

HandlerInit ==
  /\ \E r \in Requests, e \in Environments : HandlerCalled(r, e)
  /\ upFrames \in HandlerBodies
  /\ upTail = <<>>
  /\ AppIdle(<<>>)
  /\ file = [isImage |-> TRUE, small |-> TRUE]
  /\ selectedLlm = "gemini"
  /\ NoImage
  /\ NoScript
  /\ NoUi
  /\ NoMount
  /\ NoCamera

HandlerNext ==
  \/ HandlerStart
  \/ UpstreamFetchRejects
  \/ UpstreamErrorStatus
  \/ UpstreamStreamOk
  \/ UpstreamTextOk
  \/ ReadChunk
  \/ ReadDone
  \/ ReadFail

SpecHandler == HandlerInit /\ [][HandlerNext]_vars

\* One call of the client end to end, handleFileReady or processTextWithAI:
\* the App, the generator, the backend handler and the upstream provider.
AppKinds == {"a", "e'", "cut"}

AppInit ==
  /\ \E e \in {AllConfigured, [c \in CredentialNames |-> Undefined]} : HandlerIdle(e)
  /\ upFrames \in SeqsUpTo(AppKinds, MaxAppFrames)
  /\ upTail = <<>>
  /\ \E doc \in {<<>>, <<"old">>} : AppIdle(doc)
  /\ file \in [isImage : BOOLEAN, small : BOOLEAN]
  /\ selectedLlm \in {"gemini", "deepseek", "openai"}
  /\ NoImage
  /\ NoScript
  /\ NoUi
  /\ NoMount
  /\ NoCamera

AppNext ==
  \/ HandleFileReady
  \/ PreprocessResolves
  \/ PreprocessRejects
  \/ ClientFetchRejects
  \/ ClientFetchResolves
  \/ ClientRead
  \/ ClientReadDone
  \/ ClientReadFails
  \/ ProcessTextWithAI
  \/ TextFetchRejects
  \/ TextFetchResolves
  \/ HandlerStart
  \/ UpstreamFetchRejects
  \/ UpstreamErrorStatus
  \/ UpstreamStreamOk
  \/ UpstreamTextOk
  \/ ReadChunk
  \/ ReadDone
  \/ ReadFail

Spec == AppInit /\ [][AppNext]_vars

\* The App after its mount, with what the user does in the UI interleaved
\* with one extraction.
UiBodies == {<<"a", "e'">>, <<>>}
StoredDocuments ==
  {[content |-> NoEntry, title |-> NoEntry],
   [content |-> Entry(<<"old">>), title |-> Entry(<<"T">>)]}
LoadedHistories == {<<<<"h">>>>}

UiInit ==
  /\ HandlerIdle(AllConfigured)
  /\ upFrames \in UiBodies
  /\ upTail = <<>>
  /\ apc = "idle"
  /\ pipe = <<>>
  /\ yielded = <<>>
  /\ fullExtractedText = <<>>
  /\ isFirstChunk = TRUE
  /\ extractionHistory \in LoadedHistories
  /\ \E stored \in StoredDocuments :
       /\ localStorage = [content |-> stored.content, title |-> stored.title,
                          history |-> Entry(JsonStringify(extractionHistory))]
       /\ livingDocument = IF stored.content = NoEntry THEN <<>>
                           ELSE SanitizeHtml(stored.content[1])
       /\ documentTitle = IF stored.title = NoEntry THEN DefaultTitle
                          ELSE stored.title[1]
  /\ docAtStart = livingDocument
  /\ hasUnsavedChanges = FALSE
  /\ isLoading = FALSE
  /\ imageUrl = Undefined
  /\ objectUrls = {}
  /\ toast = NoToast
  /\ toasts = {}
  /\ clientLog = <<>>
  /\ tpc = "idle"
  /\ taskResult = NoResult
  /\ backendRequests = <<>>
  /\ file = [isImage |-> TRUE, small |-> TRUE]
  /\ selectedLlm = "openai"
  /\ userActions = <<>>
  /\ isSummarizing = FALSE
  /\ isSuggestingTitle = FALSE
  /\ NoImage
  /\ NoScript
  /\ NoMount
  /\ NoCamera

\* The upstream body arrives in one read. How the reads cut the body is
\* explored by SpecRelay and Spec; here the response still reaches the client
\* in every partition into chunks.
ReadWhole == ReadChunk /\ upstream' = <<>>

UiNext ==
  \/ HandleFileReady
  \/ PreprocessResolves
  \/ PreprocessRejects
  \/ ClientFetchRejects
  \/ ClientFetchResolves
  \/ ClientRead
  \/ ClientReadDone
  \/ ClientReadFails
  \/ HandlerStart
  \/ UpstreamStreamOk
  \/ ReadWhole
  \/ ReadDone
  \/ HandleDocumentChange
  \/ HandleTitleChange
  \/ HandleSaveDocument
  \/ HandleClearDocument
  \/ HandleClearHistory
  \/ HandleAppendToDocument
  \/ HandleSummarize
  \/ SummarizeSettles
  \/ HandleSuggestTitle
  \/ SuggestTitleSettles

SpecUi == UiInit /\ [][UiNext]_vars

\* The mount of the App on every storage: each entry absent or set, the
\* history entry empty, written by the App, spaced otherwise, or cut short.
StoredHistories ==
  {NoEntry, Entry(<<>>),
   Entry(JsonStringify(<<>>)),
   Entry(JsonStringify(<<<<"h">>>>)),
   Entry(JsonStringify(<<<<"h">>, <<"g">>>>)),
   Entry(<<"[", " ", "{", "h", "}", " ", "]">>),
   Entry(<<"[", "{", "h">>)}

Storages ==
  [content : {NoEntry, Entry(<<"old", ScriptElement>>)},
   title   : {NoEntry, Entry(<<"T">>)},
   history : StoredHistories]

MountInit ==
  /\ HandlerIdle(AllConfigured)
  /\ upFrames = <<>>
  /\ upTail = <<>>
  /\ AppIdle(<<>>)
  /\ file = [isImage |-> TRUE, small |-> TRUE]
  /\ selectedLlm = "gemini"
  /\ documentTitle = DefaultTitle
  /\ localStorage \in Storages
  /\ userActions = <<>>
  /\ isSummarizing = FALSE
  /\ isSuggestingTitle = FALSE
  /\ mpc = "load"
  /\ strictMode \in BOOLEAN
  /\ effectRuns = 0
  /\ pendingState = NoPending
  /\ storedAtMount = localStorage.history
  /\ NoImage
  /\ NoScript
  /\ NoCamera

MountNext == LoadEffect \/ SaveHistoryEffect \/ Render

SpecMount == MountInit /\ [][MountNext]_vars

\* CameraModal from its mount inside ImageUploader, closed, through up to
\* MaxOpens openings.
CameraInit ==
  /\ HandlerIdle(AllConfigured)
  /\ upFrames = <<>>
  /\ upTail = <<>>
  /\ AppIdle(<<>>)
  /\ file = [isImage |-> TRUE, small |-> TRUE]
  /\ selectedLlm = "gemini"
  /\ NoImage
  /\ NoScript
  /\ NoUi
  /\ NoMount
  /\ isCameraOpen = FALSE
  /\ stream = 0
  /\ effectStream = 0
  /\ getUserMediaPending = {}
  /\ liveStreams = {}
  /\ getUserMediaCalls = 0
  /\ cameraMounted = TRUE
  /\ cameraError = FALSE

CameraNext ==
  \/ OpenCamera
  \/ CloseCamera
  \/ GetUserMediaResolves
  \/ GetUserMediaRejects
  \/ UnmountCamera

SpecCamera == CameraInit /\ [][CameraNext]_vars

\* The binarization loop of preprocessImage on every image of at most
\* MaxPixels pixels drawn from SamplePixels, as <<r, g, b, a>>.
SamplePixels ==
  {<<0, 0, 0, 255>>, <<255, 255, 255, 255>>, <<128, 128, 128, 255>>,
   <<128, 128, 129, 0>>, <<127, 128, 129, 128>>, <<129, 129, 127, 7>>,
   <<255, 0, 0, 255>>, <<255, 255, 0, 0>>, <<0, 130, 255, 64>>,
   <<129, 129, 129, 1>>}

Images == {Flatten(pixels) : pixels \in SeqsUpTo(SamplePixels, MaxPixels)}

BinarizeInit ==
  /\ HandlerIdle(AllConfigured)
  /\ upFrames = <<>>
  /\ upTail = <<>>
  /\ AppIdle(<<>>)
  /\ file = [isImage |-> TRUE, small |-> TRUE]
  /\ selectedLlm = "gemini"
  /\ NoScript
  /\ NoUi
  /\ NoMount
  /\ NoCamera
  /\ imageData \in Images
  /\ pixelData = imageData
  /\ loopI = 0

BinarizeNext == BinarizeStep

SpecBinarize == BinarizeInit /\ [][BinarizeNext]_vars

\* Both copies of the text handling on every text-task body and every
\* upstream response.
TextBodies == [task : {"summarize", "title", "other"}, text : {"", "t"}]

TextResponses ==
  [status : {200}, reply : TextReplies, text : {<<>>}]
  \cup [status : UpstreamStatuses \ {200}, reply : {"none"}, text : UpstreamErrorTexts]

ScriptInit ==
  /\ HandlerIdle(AllConfigured)
  /\ upFrames = <<>>
  /\ upTail = <<>>
  /\ AppIdle(<<>>)
  /\ file = [isImage |-> TRUE, small |-> TRUE]
  /\ selectedLlm = "deepseek"
  /\ NoImage
  /\ scriptBody \in TextBodies
  /\ scriptReply \in TextResponses
  /\ scriptRun = NotRun
  /\ backendRun = NotRun
  /\ NoUi
  /\ NoMount
  /\ NoCamera

ScriptNext == ScriptRuns \/ BackendRuns

SpecScript == ScriptInit /\ [][ScriptNext]_vars

\* ------------------------------------------------------------------ C1
WellFormedBody ==
  /\ upTail = <<>>
  /\ Len(upFrames) >= 1
  /\ upFrames[Len(upFrames)] = "done"
  /\ \A i \in 1..(Len(upFrames) - 1) : upFrames[i] \in GoodKinds

\* C1: when handleOpenAICompatibleStream has relayed a well-formed SSE body,
\* delivered in any partition of its bytes into reads, the fragments written,
\* concatenated in write order, are the delta.content values of the frames
\* before [DONE], concatenated in arrival order.
C1_RelayConcatenation ==
  (hpc = "done" /\ WellFormedBody) => Flatten(res.written) = ContentOf(upFrames)

C1_Witness ==
  /\ hpc = "done"
  /\ WellFormedBody
  /\ Len(res.written) >= 2
  /\ res.written[1] # res.written[2]
  /\ readBoundaries = {"char", "line"}

\* ------------------------------------------------------------------ C2
\* The frames before an optional final [DONE].
DataFrames ==
  IF upFrames # <<>> /\ upFrames[Len(upFrames)] = "done"
  THEN SubSeq(upFrames, 1, Len(upFrames) - 1) ELSE upFrames

\* N frames, one of them malformed, the others carrying non-empty content.
OneMalformedAmong(frames) ==
  /\ upTail = <<>>
  /\ Len(frames) >= 1
  /\ \E i \in 1..Len(frames) :
       /\ frames[i] \in MalformedKinds
       /\ \A j \in 1..Len(frames) : j # i => frames[j] \in ContentKinds

\* The content of each frame that carries one, one fragment per frame.
RECURSIVE FragmentsOf(_)
FragmentsOf(frames) ==
  IF frames = <<>> THEN <<>>
  ELSE (IF FrameContent(Head(frames)) # <<>>
        THEN << FrameContent(Head(frames)) >> ELSE <<>>) \o FragmentsOf(Tail(frames))

\* C2: with one malformed data: frame at any position among N frames whose
\* other frames carry non-empty content, exactly N-1 fragments are written,
\* those of the frames before and after the malformed one, and the handler
\* ends the response normally without reaching its catch block.
C2_MalformedFrameSkipped ==
  (hpc = "done" /\ OneMalformedAmong(DataFrames)) =>
     /\ Len(res.written) = Len(DataFrames) - 1
     /\ res.written = FragmentsOf(DataFrames)
     /\ res.ends = 1
     /\ res.statusCode = 200
     /\ res.sent = NoBody
     /\ \A i \in 1..Len(serverLog) : serverLog[i] = "Error parsing stream JSON:"

C2_Witness ==
  /\ hpc = "done"
  /\ OneMalformedAmong(DataFrames)
  /\ Len(DataFrames) >= 2
  /\ DataFrames[1] \in MalformedKinds
  /\ Len(res.written) = Len(DataFrames) - 1
  /\ serverLog = <<"Error parsing stream JSON:">>

\* ------------------------------------------------------------------ C3
WholeBody == BodyBytes(upFrames) \o upTail

\* C3: for a fixed upstream byte sequence the fragments written by the relay
\* do not depend on where the read boundaries fall, inside a multi-byte
\* character included: they are the fragments of the delivery in one read.
C3_SplitInvariance ==
  hpc = "done" => res.written = RelayRead(<<>>, <<>>, WholeBody).writes

C3_Witness ==
  /\ hpc = "done"
  /\ "char" \in readBoundaries
  /\ \E i \in 1..Len(res.written) : res.written[i] = <<"e'">>

\* ------------------------------------------------------------------ C4
GeneratorReturned == apc = "done" /\ clientLog = <<>>
GeneratorThrew == apc = "done" /\ clientLog # <<>>

\* C4: when extractTextFromImageStream has consumed a response body, in any
\* split of its bytes into reads, the chunks it yielded, concatenated in
\* order, are the decoding of the whole body as one unit.
C4_ClientDecodesAsWhole ==
  GeneratorReturned => Flatten(yielded) = DecodeNoStream(Wire(res.written))

\* ------------------------------------------------------------------ C5
Logged(log, message) == \E i \in 1..Len(log) : log[i] = message

UpstreamReadFailedMidStream ==
  /\ Logged(serverLog, "Error occurred mid-stream. Closing connection.")
  /\ Len(res.written) >= 1

\* C5: when reading the upstream stream fails after a fragment has been
\* written to the client, extractTextFromImageStream does not finish
\* normally: the sequence ends with an error, not with a clean end.
C5_StreamErrorReachesClient ==
  (UpstreamReadFailedMidStream /\ apc = "done") => GeneratorThrew

\* ------------------------------------------------------------------ C6
ExtractionFailed ==
  \/ Logged(serverLog, "Error in Vercel Serverless Function:")
  \/ Logged(clientLog, "Error extracting text from image:")

\* C6: an extraction started by handleFileReady in which a failure other
\* than a skipped malformed frame occurred at any stage ends with an error
\* toast, and 'Text extracted successfully!' is never shown for it.
C6_FailuresShownToUser ==
  (apc = "done" /\ ExtractionFailed) =>
     /\ toast.type = "error"
     /\ \A t \in toasts : t.type # "success"

\* ------------------------------------------------------------------ C7
IsSuffix(suffix, s) ==
  /\ Len(suffix) <= Len(s)
  /\ SubSeq(s, Len(s) - Len(suffix) + 1, Len(s)) = suffix

\* C7: for every provider in OCR mode, when the upstream answers with a
\* non-success status the handler writes no fragment and answers non-2xx
\* with a JSON error whose message carries the upstream status and body
\* text, and the client generator yields no chunk and throws.
C7_UpstreamErrorStatus ==
  (apiResponse.status \notin {0, 200}) =>
     /\ res.written = <<>>
     /\ res.statusCode \notin 200..299
     /\ res.sent.field = "error"
     /\ \E i \in 1..Len(res.sent.value) :
          res.sent.value[i] = StatusText(apiResponse.status)
     /\ IsSuffix(apiResponse.text, res.sent.value)
     /\ yielded = <<>>
     /\ apc = "done" => (GeneratorThrew /\ toast.type = "error")

C7_Witness ==
  /\ apc = "done"
  /\ selectedLlm = "deepseek"
  /\ apiResponse = [status |-> 401, text |-> <<"unauthorized">>]
  /\ res.statusCode = 500
  /\ toast.type = "error"
  /\ IsSuffix(<<"API error: ", "401", " ", "unauthorized", "}">>, toast.message)

\* ------------------------------------------------------------------ C8
\* C8: when the fragment sequence throws after k >= 0 chunks were delivered,
\* the living document after the catch and finally blocks is the document
\* handleFileReady started from followed by those k chunks in arrival order
\* (after the separator when the document was not empty).
C8_PartialOutputKept ==
  GeneratorThrew =>
     livingDocument = docAtStart
        \o (IF yielded # <<>> /\ docAtStart # <<>> THEN <<Separator>> ELSE <<>>)
        \o Flatten(yielded)

C8_Witness ==
  /\ GeneratorThrew
  /\ Len(yielded) >= 2
  /\ docAtStart # <<>>
  /\ Len(livingDocument) > Len(docAtStart) + 2

\* ------------------------------------------------------------------ C9
\* The credential the specification assigns to a request's llm field.
SelectedCredential ==
  CASE req.llm = "deepseek" -> "DEEPSEEK_API_KEY"
    [] req.llm = "openai"   -> "OPENAI_API_KEY"
    [] OTHER                -> "GEMINI_API_KEY"

InAMode ==
  /\ req.method = "POST"
  /\ \/ req.task \notin {Undefined, ""} /\ req.text \notin {Undefined, ""}
     \/ req.image \notin {Undefined, ""}

Configured(c) == env[c] \notin {Undefined, ""}

\* C9: in both modes, when the selected provider's credential is not
\* configured the handler makes no upstream call, writes no fragment and
\* answers non-2xx with a JSON error that names that credential; when it is
\* configured the request goes upstream whatever the other credentials are.
C9_MissingCredential ==
  /\ (hpc = "done" /\ InAMode /\ ~Configured(SelectedCredential)) =>
        /\ fetchCalls = <<>>
        /\ adapterCalls = <<>>
        /\ res.written = <<>>
        /\ res.statusCode \notin 200..299
        /\ res.sent = ErrorBody(<<"Error processing your request: ",
                                  SelectedCredential, " is not configured.">>)
  /\ (hpc # "start" /\ InAMode /\ Configured(SelectedCredential)) =>
        /\ Len(fetchCalls) = 1
        /\ ~(res.sent.field = "error" /\ Len(res.sent.value) = 3
             /\ res.sent.value[3] = " is not configured.")

C9_Witness ==
  /\ hpc = "done"
  /\ InAMode
  /\ req.llm = "deepseek"
  /\ env["DEEPSEEK_API_KEY"] = Undefined
  /\ env["OPENAI_API_KEY"] = "key"
  /\ env["GEMINI_API_KEY"] = "key"
  /\ res.statusCode = 500
  /\ fetchCalls = <<>>

\* ----------------------------------------------------------------- C10
GeminiAdapterOfMode ==
  IF req.task \notin {Undefined, ""} /\ req.text \notin {Undefined, ""}
  THEN "handleGeminiText" ELSE "handleGeminiStream"

\* C10: a request in either mode whose llm is absent or is neither
\* 'deepseek' nor 'openai' is routed to the Gemini adapter of its mode and to
\* no other adapter: that adapter is the one called as soon as the Gemini
\* credential is configured, and without it the error names GEMINI_API_KEY.
C10_DefaultsToGemini ==
  (InAMode /\ req.llm \notin {"deepseek", "openai"}) =>
     /\ \A i \in 1..Len(adapterCalls) : adapterCalls[i].adapter = GeminiAdapterOfMode
     /\ (hpc # "start" /\ Configured("GEMINI_API_KEY")) => Len(adapterCalls) = 1
     /\ (hpc = "done" /\ ~Configured("GEMINI_API_KEY")) =>
           res.sent = ErrorBody(<<"Error processing your request: ",
                                  "GEMINI_API_KEY", " is not configured.">>)

C10_Witness ==
  /\ InAMode
  /\ req.llm = "DeepSeek"
  /\ env["DEEPSEEK_API_KEY"] = Undefined
  /\ Len(adapterCalls) = 1
  /\ adapterCalls[1].adapter = "handleGeminiStream"
  /\ Len(res.written) >= 1

\* A POST whose body holds neither a task with a text nor an image.
NeitherPairNorImage ==
  /\ req.method = "POST"
  /\ ~(req.task \notin {Undefined, ""} /\ req.text \notin {Undefined, ""})
  /\ req.image \in {Undefined, ""}

\* C11: a POST body that has neither a task+text pair nor an image field, an
\* empty text or image included, is answered 400 with a JSON error body, no
\* upstream call is made, and no credential failure is reported in its place.
C11_InvalidBodyRejected ==
  (hpc = "done" /\ NeitherPairNorImage) =>
    /\ res.statusCode = 400
    /\ res.sent = ErrorBody(<<"Invalid request body.">>)
    /\ res.contentType = "application/json"
    /\ fetchCalls = <<>>
    /\ adapterCalls = <<>>

\* The same for the bodies that are objects.
ObjectBodyRejected ==
  (req.body = "object") => C11_InvalidBodyRejected

\* ----------------------------------------------------------------- C12
\* The frames before the first [DONE] frame.
RECURSIVE BeforeDone(_)
BeforeDone(frames) ==
  IF frames = <<>> \/ Head(frames) = "done" THEN <<>>
  ELSE <<Head(frames)>> \o BeforeDone(Tail(frames))

HasDone(frames) == \E i \in 1..Len(frames) : frames[i] = "done"

Malformed(frames) == {i \in 1..Len(frames) : frames[i] \in MalformedKinds}

\* C12: in handleOpenAICompatibleStream a data: [DONE] frame ends the fragment
\* sequence: it is not handed to the JSON parser, it writes no fragment, and
\* no fragment of a frame that follows it is written, whether that frame
\* arrives in the same read or in a later one.
C12_DoneEndsFragments ==
  (hpc = "done" /\ HasDone(upFrames)) =>
     /\ res.written = FragmentsOf(BeforeDone(upFrames))
     /\ Len(serverLog) = Cardinality(Malformed(BeforeDone(upFrames)))

\* The [DONE] frame itself is skipped: it is not parsed and writes nothing,
\* and the frames before and after it are handled as any other frame.
DoneFrameSkipped ==
  (hpc = "done" /\ upTail = <<>>) =>
     /\ res.written = FragmentsOf(upFrames)
     /\ Len(serverLog) = Cardinality(Malformed(upFrames))

\* ----------------------------------------------------------------- C13
\* The bytes the step has read from the upstream body.
BytesRead == SubSeq(upstream, 1, Len(upstream) - Len(upstream'))

\* The text part of a read taken by itself: the read decoded on its own, the
\* leading 'data: ' removed, parsed as one JSON value; none when the parse
\* fails or the part is empty.
TextPartOfRead(value) ==
  LET json == ParseFrame(StripDataPrefix(DecodeNoStream(value)))
  IN  IF json.ok /\ json.content # <<>> THEN << json.content >> ELSE <<>>

GeminiReading == hpc = "read" /\ CurrentAdapter = "handleGeminiStream"

\* C13: in handleGeminiStream every read is parsed on its own, nothing is
\* carried over: a read appends its own text part to the fragments written
\* when it parses and has a non-empty one, and nothing otherwise (the failure
\* is logged); in both cases the stream goes on and the response stays open.
C13_GeminiReadsAlone ==
  [][(GeminiReading /\ upstream' # upstream) =>
       /\ res'.written = res.written \o TextPartOfRead(BytesRead)
       /\ hpc' = "read"
       /\ res'.ends = 0
       /\ res'.statusCode = 200
       /\ Len(serverLog') = Len(serverLog)
            + (IF ParseFrame(StripDataPrefix(DecodeNoStream(BytesRead))).ok THEN 0 ELSE 1)
       /\ <<decoderPending', buffer'>> = <<decoderPending, buffer>>]_vars

\* A read that failed to parse came first and the read after it was written.
C13_Witness ==
  /\ hpc = "done"
  /\ adapterCalls # <<>>
  /\ CurrentAdapter = "handleGeminiStream"
  /\ upFrames # <<>>
  /\ upFrames[1] \in MalformedKinds
  /\ serverLog = <<"Error parsing Gemini stream chunk:">>
  /\ res.written = << <<"a">> >>
  /\ res.ends = 1
  /\ res.statusCode = 200

\* ----------------------------------------------------------------- C14
HandleFileReadyReturned == apc = "done"

\* C14: whenever a call of handleFileReady that created an object URL has
\* returned, by whichever path (text extracted, empty text, or an error thrown
\* at any point of the extraction), that URL is revoked, imageUrl is null and
\* isLoading is false.
C14_CleanupOnEveryExit ==
  HandleFileReadyReturned =>
    /\ TempImageUrl \notin objectUrls
    /\ objectUrls = {}
    /\ imageUrl = Undefined
    /\ isLoading = FALSE

\* The extraction threw after chunks had been appended to the document.
C14_Witness ==
  /\ HandleFileReadyReturned
  /\ clientLog # <<>>
  /\ yielded # <<>>
  /\ toast.type = "error"
  /\ objectUrls = {}

\* ----------------------------------------------------------------- C15
\* The client has consumed part of the response and then stopped (its
\* connection to the backend dropped) while a stream adapter is still
\* relaying.
ConsumerGoneMidStream == apc = "done" /\ yielded # <<>> /\ hpc = "read"

\* C15: once the consumer of the fragment sequence has stopped before the end
\* of the stream, the upstream reader is cancelled or released: the relay
\* reads nothing more from the upstream body.
C15_UpstreamReleasedOnAbandon ==
  [][ConsumerGoneMidStream => upstream' = upstream]_vars

\* ----------------------------------------------------------------- C16
\* C16: nothing is retried: one invocation of the handler makes at most one
\* upstream call, and one client call of extractTextFromImageStream or of
\* processTextWithAI posts at most one request to the backend, whatever the
\* outcome.
C16_NoRetry ==
  /\ Len(fetchCalls) <= 1
  /\ Len(adapterCalls) <= 1
  /\ Len(backendRequests) <= 1

\* A client call has failed after its one request, the upstream call of
\* which had failed as well.
C16_Witness ==
  /\ tpc = "done"
  /\ taskResult.kind = "thrown"
  /\ Len(backendRequests) = 1
  /\ Len(fetchCalls) = 1
  /\ apiResponse.status = 500
  /\ res.statusCode = 500

\* ----------------------------------------------------------------- C17
JsonErrorBody ==
  /\ res.contentType = "application/json"
  /\ res.sent.field = "error"
  /\ res.sent.value # <<>>
  /\ res.written = <<>>
  /\ res.ends = 1

JsonResultBody ==
  /\ res.contentType = "application/json"
  /\ res.sent.field = "result"
  /\ res.written = <<>>
  /\ res.ends = 1

\* A text-task request whose upstream call succeeded and whose reply was read
\* without an error.
TextTaskSucceeded ==
  /\ hpc = "done"
  /\ req.method = "POST"
  /\ req.task \notin {Undefined, ""}
  /\ req.text \notin {Undefined, ""}
  /\ apiResponse.status = 200
  /\ serverLog = <<>>

\* An error was raised before any byte of the response had been written.
ErrorBeforeFirstByte ==
  /\ hpc = "done"
  /\ Logged(serverLog, "Error in Vercel Serverless Function:")
  /\ res.written = <<>>

\* C17: every response of the handler with a non-2xx status carries a JSON
\* body with a string error field: 405 for a method other than POST, 400 for
\* an invalid body, 500 for an error raised before a byte of the body was
\* written; and every successful text-task request is answered 200 with a
\* JSON body { result: string }.
C17_JsonBodies ==
  hpc = "done" =>
    /\ res.statusCode \notin 200..299 =>
          (res.statusCode \in {405, 400, 500} /\ JsonErrorBody)
    /\ req.method # "POST" => res.statusCode = 405
    /\ res.statusCode = 405 => req.method # "POST"
    /\ ErrorBeforeFirstByte => res.statusCode = 500
    /\ TextTaskSucceeded => (res.statusCode = 200 /\ JsonResultBody)

\* A text-task request answered 500 because the provider refused the call.
C17_Witness ==
  /\ hpc = "done"
  /\ Mode(req) = "text"
  /\ apiResponse.status = 401
  /\ res.statusCode = 500
  /\ JsonErrorBody

\* ----------------------------------------------------------------- C18
\* The router has accepted the request as a text task and the adapter has
\* sent its upstream call.
TextTaskSent ==
  /\ req.method = "POST"
  /\ req.task \notin {Undefined, ""}
  /\ req.text \notin {Undefined, ""}
  /\ fetchCalls # <<>>

SummarizeTemplate(text) ==
  <<"Summarize the following text in one or two paragraphs. Focus on the key points and main arguments. The text is: \"",
    text, "\"">>

TitleTemplate(text) ==
  <<"Generate a concise, descriptive title (5 words or less) for the following document. Do not use quotation marks in the title. The document text is: \"",
    text, "\"">>

\* C18: for every request accepted as a text task, whatever its task and
\* provider, the prompt sent upstream is one of the two templates, the
\* summarize template exactly when the task is 'summarize' and the title
\* template exactly when the task is 'title'; none is sent without a prompt.
C18_TaskPromptMatches ==
  TextTaskSent =>
    LET prompt == fetchCalls[1].prompt
    IN  /\ prompt \in {SummarizeTemplate(req.text), TitleTemplate(req.text)}
        /\ prompt = SummarizeTemplate(req.text) <=> req.task = "summarize"
        /\ prompt = TitleTemplate(req.text) <=> req.task = "title"

\* The same for the two tasks the switch knows.
KnownTaskPromptMatches ==
  req.task \in {"summarize", "title"} => C18_TaskPromptMatches

\* ----------------------------------------------------------------- C19
OcrSent ==
  /\ req.method = "POST"
  /\ Mode(req) = "ocr"
  /\ fetchCalls # <<>>

Range(seq) == {seq[i] : i \in 1..Len(seq)}

\* The part of a prompt before its last piece.
PrefixOf(prompt) == SubSeq(prompt, 1, Len(prompt) - 1)

\* C19: for every provider and every context the OCR prompt sent upstream is
\* the instruction prefix of the context followed by the shared base
\* instruction: the prefixes of receipt, handwriting, book, whiteboard and
\* quiz are not empty and pairwise distinct, 'general' and an unknown context
\* give the base instruction alone, and the prompt for receipt contains
\* "Structure the output as an HTML table."
C19_OcrPromptByContext ==
  OcrSent =>
    LET prompt == fetchCalls[1].prompt
    IN  /\ prompt # <<>>
        /\ prompt[Len(prompt)] = BaseInstruction
        /\ BaseInstruction \notin Range(PrefixOf(prompt))
        /\ req.context \notin NamedContexts => prompt = <<BaseInstruction>>
        /\ req.context \in NamedContexts =>
              /\ PrefixOf(prompt) # <<>>
              /\ \A c \in NamedContexts \ {req.context} :
                    PrefixOf(GetOcrPrompt(c)) # PrefixOf(prompt)
        /\ req.context = "receipt" =>
              "Structure the output as an HTML table." \in Range(prompt)

\* context=receipt, llm=openai, valid image: the call has been sent.
C19_Witness ==
  /\ OcrSent
  /\ req.context = "receipt"
  /\ req.llm = "openai"
  /\ fetchCalls[1].model = "gpt-4o"
  /\ "Structure the output as an HTML table." \in Range(fetchCalls[1].prompt)

\* ----------------------------------------------------------------- C20
\* The pixels the loop has gone through.
PixelsDone == 0..((loopI \div 4) - 1)

\* C20: the binarization step turns every pixel (r, g, b, a) into
\* (c, c, c, a) with c = 255 when (r + g + b) / 3 > 128 and c = 0 otherwise:
\* every colour channel of the result is 0 or 255, a mean of exactly 128
\* gives black, and the alpha value is the one read.
C20_Binarization ==
  \A k \in PixelsDone :
    LET r == imageData[4 * k + 1]
        g == imageData[4 * k + 2]
        b == imageData[4 * k + 3]
        a == imageData[4 * k + 4]
        c == pixelData[4 * k + 1]
    IN  /\ c \in {0, 255}
        /\ c = 255 <=> r + g + b >= 385
        /\ r + g + b = 384 => c = 0
        /\ pixelData[4 * k + 2] = c
        /\ pixelData[4 * k + 3] = c
        /\ pixelData[4 * k + 4] = a

\* The loop has ended on an image with a pixel of mean exactly 128 and a
\* pixel of mean 128 1/3, turned black and white.
C20_Witness ==
  /\ imageData # <<>>
  /\ loopI = Len(pixelData)
  /\ \E k, m \in PixelsDone :
       /\ imageData[4 * k + 1] + imageData[4 * k + 2] + imageData[4 * k + 3] = 384
       /\ pixelData[4 * k + 1] = 0
       /\ imageData[4 * m + 1] + imageData[4 * m + 2] + imageData[4 * m + 3] = 385
       /\ pixelData[4 * m + 1] = 255
       /\ imageData[4 * m + 4] = 0
       /\ pixelData[4 * m + 4] = 0

\* ----------------------------------------------------------------- C22
Set(v) == v \notin {Undefined, ""}

\* The router has called an adapter for the request.
Dispatched == adapterCalls # <<>>

\* C22: every request the router dispatches to an adapter has exactly one of
\* image and text set: a body with both an image and a task+text pair is
\* never dispatched.
C22_ExactlyOneOfImageAndText ==
  Dispatched =>
    /\ ~(Set(req.image) /\ Set(req.text))
    /\ Set(req.image) \/ Set(req.text)

\* ----------------------------------------------------------------- C25
\* C25: for every request and outcome the handler performs exactly one
\* terminal action on the response, a send or an end: nothing is done to the
\* response after it, no fragment is written after it, and send is never
\* called once a fragment has been written.
C25_OneTerminalAction ==
  [][/\ res'.ends <= 1
     /\ hpc' = "done" => res'.ends = 1
     /\ hpc' # "done" => res'.ends = 0
     /\ res.ends >= 1 => res' = res
     /\ res'.sent # NoBody => res'.written = <<>>]_vars

\* The upstream failed after a fragment had been written: the response was
\* ended, once, without a send.
C25_Witness ==
  /\ hpc = "done"
  /\ res.written # <<>>
  /\ Logged(serverLog, "Error occurred mid-stream. Closing connection.")
  /\ res.ends = 1
  /\ res.sent = NoBody

\* ----------------------------------------------------------------- C26
\* The bytes of the upstream body read so far.
Consumed == Len(WholeBody) - Len(upstream)

\* The frames whose terminating newline has been read.
FramesRead ==
  LET n == CHOOSE k \in 0..Len(upFrames) :
             /\ Len(BodyBytes(SubSeq(upFrames, 1, k))) <= Consumed
             /\ \A m \in (k + 1)..Len(upFrames) :
                   Len(BodyBytes(SubSeq(upFrames, 1, m))) > Consumed
  IN  SubSeq(upFrames, 1, n)

\* C26: in handleOpenAICompatibleStream a data: frame gives a fragment only
\* once its terminating newline has been read: at every moment the fragments
\* written are those of the frames read up to their newline, and when the
\* upstream ends, a final line without a newline, a complete data: frame
\* included, is dropped: it is neither parsed nor written.
C26_UnterminatedLineDropped ==
  hpc \in {"read", "done"} =>
    /\ res.written = FragmentsOf(FramesRead)
    /\ Len(serverLog) = Cardinality(Malformed(FramesRead))
    /\ hpc = "done" => res.written = FragmentsOf(upFrames)

\* The upstream ended on an unterminated complete data: frame after a frame
\* that was written.
C26_Witness ==
  /\ hpc = "done"
  /\ upTail = <<"data:", " ", "{", "a", "}">>
  /\ res.written = << <<"e'">> >>
  /\ buffer = upTail
  /\ res.ends = 1

\* ----------------------------------------------------------------- C24
BothRun == scriptRun # NotRun /\ backendRun # NotRun

\* C24: on every text-task body and every upstream response the script's
\* getTextTaskPrompt and handleOpenAICompatibleText give the same prompt and
\* the same outcome, returned string or thrown error, as the backend's.
C24_ScriptMatchesBackend ==
  BothRun =>
    /\ scriptRun.prompt = backendRun.prompt
    /\ scriptRun.outcome = backendRun.outcome

\* The two agree on the kind of case the script simulates: a known task and
\* a response that is either not ok or carries a choices array.
SimulatedCaseMatches ==
  (/\ BothRun
   /\ scriptBody.task \in {"summarize", "title"}
   /\ scriptReply.status # 200 \/ scriptReply.reply = "content")
  => (scriptRun = backendRun)

\* ----------------------------------------------------------------- C21
\* handleFileReady returns: from the generator's normal end or from a throw.
ExtractionEnds == apc # "done" /\ apc' = "done"

\* The generator ended normally: nothing was logged by its catch block.
EndsWithoutError == ExtractionEnds /\ clientLog' = clientLog

\* C21: when the extraction finishes without error and yielded non-empty
\* text, exactly one history item is prepended and its text is the
\* concatenation of the yielded chunks in arrival order, whatever was done to
\* the document meanwhile; when it throws or yields only empty text, the
\* history is left as it is.
C21_HistoryItemIsConcatenation ==
  [][ExtractionEnds =>
       IF EndsWithoutError /\ Flatten(yielded) # <<>>
       THEN extractionHistory' = <<Flatten(yielded)>> \o extractionHistory
       ELSE extractionHistory' = extractionHistory]_vars

\* An extraction of two chunks with an edit between them has ended and its
\* item heads the history.
C21_Witness ==
  /\ apc = "done"
  /\ Len(yielded) = 2
  /\ livingDocument = docAtStart \o (IF docAtStart # <<>> THEN <<Separator>> ELSE <<>>)
                      \o yielded[1] \o <<ScriptElement>> \o yielded[2]
  /\ Len(extractionHistory) = 2
  /\ extractionHistory[1] = yielded[1] \o yielded[2]

\* ----------------------------------------------------------------- C27
\* part occurs in doc as a contiguous run.
Contains(doc, part) ==
  \E i \in 0..(Len(doc) - Len(part)) : SubSeq(doc, i + 1, i + Len(part)) = part

\* The user has neither cleared nor edited the document.
OnlyActions(kinds) == \A i \in 1..Len(userActions) : userActions[i] \in kinds

\* C27: with only Save, Summarize, Suggest Title and Append-from-history
\* interleaved with the chunk arrivals, the living document at the end of
\* the extraction contains all delivered chunks, contiguous and in arrival
\* order.
C27_ChunksStayContiguous ==
  (/\ apc = "done"
   /\ OnlyActions({"save", "saveFailed", "summarize", "suggestTitle", "append"}))
  => Contains(livingDocument, Flatten(yielded))

\* The same without Append-from-history.
ContiguousWithoutAppend ==
  (/\ apc = "done"
   /\ OnlyActions({"save", "saveFailed", "summarize", "suggestTitle"}))
  => Contains(livingDocument, Flatten(yielded))

\* ----------------------------------------------------------------- C28
ExtractionInProgress == apc \in {"preprocess", "fetch", "read"}

\* The document and the title as storage holds them: what the last save
\* wrote or the load read, and the initial values where the entry is absent,
\* as after a clear.
StoredDocument ==
  IF localStorage.content = NoEntry THEN <<>>
  ELSE SanitizeHtml(localStorage.content[1])

StoredTitle ==
  IF localStorage.title = NoEntry THEN DefaultTitle ELSE localStorage.title[1]

\* C28: whenever no extraction is in progress and hasUnsavedChanges is
\* false, the living document and the title are the values last saved,
\* cleared or loaded from storage.
C28_CleanMeansStored ==
  (~ExtractionInProgress /\ ~hasUnsavedChanges)
  => (livingDocument = StoredDocument /\ documentTitle = StoredTitle)

\* The same as long as no extraction has thrown.
CleanMeansStoredWithoutThrow ==
  (/\ ~ExtractionInProgress
   /\ ~hasUnsavedChanges
   /\ ~Logged(clientLog, "Error extracting text from image:"))
  => (livingDocument = StoredDocument /\ documentTitle = StoredTitle)

\* ----------------------------------------------------------------- C30
\* handleClearDocument returned at the declined confirmation, or went on.
ClearDeclined == userActions' = Append(userActions, "clearDeclined")
ClearProceeds == userActions' = Append(userActions, "clear")

HistoryOf(entry) == IF Saved(entry) THEN JsonParse(entry[1]).value ELSE <<>>

Readable(entry) == Saved(entry) => JsonParse(entry[1]).ok

\* C29: once the mount effects have settled, the extractionHistory state
\* and the stored entry both hold the history that was stored before the
\* mount, also when the mount effects are run twice.
C29_MountKeepsHistory ==
  (mpc = "settled" /\ Readable(storedAtMount))
  => /\ extractionHistory = HistoryOf(storedAtMount)
     /\ HistoryOf(localStorage.history) = HistoryOf(storedAtMount)

\* The same when the mount effects are run once.
SingleMountKeepsHistory ==
  (mpc = "settled" /\ Readable(storedAtMount) /\ ~strictMode)
  => /\ extractionHistory = HistoryOf(storedAtMount)
     /\ HistoryOf(localStorage.history) = HistoryOf(storedAtMount)

\* ----------------------------------------------------------------- C23
\* C23: while the modal is closed or unmounted no MediaStream obtained by
\* getUserMedia is live: every track was stopped when the modal went from
\* open to closed, also for a stream that getUserMedia handed out only after
\* the close.
C23_NoLiveStreamWhileClosed == ~isCameraOpen => liveStreams = {}

====
